---- MODULE Spec2Model ----
(***************************************************************************)
(* A model of the crawl-and-chunk pipeline of the help-center ingester:    *)
(*   - polite_get and FetchContext   (src/app/services/kb/scraper.py)      *)
(*   - canonicalize_url, scrape_locale (src/app/services/kb/scraper.py)    *)
(*   - normalize_text                (src/app/services/kb/cleaner.py)      *)
(*   - the chunker, chunk_article    (src/app/services/kb/chunker.py)      *)
(*   - preprocess_locale             (src/scripts/preprocess_helpcenter.py) *)
(*   - main, the multi-site runner   (src/scripts/scrape_helpcenter.py)    *)
(* The specifications of the module: SpecFetch (one FetchContext and the   *)
(* attempts of its polite_get calls, with a clock), Spec (consecutive      *)
(* scrape_locale runs over one output directory), SpecTwin (two runs from  *)
(* the same output directory with the same parameters), SpecLive (one run, *)
(* with fairness of the loop), SpecAssets (one run on a site with images), *)
(* SpecRunner (main over a list of sites), SpecChunk (the chunking         *)
(* pipeline of one section), SpecSteps (the same pipeline statement by     *)
(* statement, with fairness), SpecMerge (_merge_small on a chunk list),    *)
(* SpecArticle (chunk_article calls on one article), SpecUrl               *)
(* (canonicalize_url on URL strings) and SpecStore (preprocess_locale runs *)
(* over one site's parsed articles).  Each specification holds the         *)
(* variables of the others at their initial values.                        *)
(*                                                                         *)
(* Times are counted in half seconds: 1 = 0.5s, 2 = 1.0s, 4 = 2.0s.        *)
(***************************************************************************)
EXTENDS Integers, Sequences, FiniteSets, TLC

VARIABLES
    \* ---- FetchContext and polite_get ----
    now,                 \* time.time()
    rate_limit_seconds,  \* FetchContext.rate_limit_seconds
    last_request_ts,     \* FetchContext.last_request_ts
    fpc,                 \* "idle" | "loop" | "returned" | "raised"
    attempt,             \* the loop index of polite_get
    outcomes,            \* what each request of the current call ended in
    sleeps,              \* the backoff sleeps of the current call
    nreq,                \* HTTP requests issued by the current call
    prevIssued,          \* when the request before the last one was issued
    lastIssued,          \* when the last request was issued
    retStatus,           \* status of the response handed to the caller
    calls,               \* polite_get calls started on this context
    \* ---- the site and the output directory ----
    site_index,          \* the index page: its (url, category) links, in order
    site_links,          \* the outbound links of the pages fetched so far
    parsed_files,        \* parsed/<site>/<slug>.json on disk: slug and the url inside
    site_images,         \* the src of the images of each page, in order
    asset_files,         \* assets/<site>/<sha1(src)><ext> on disk
    \* ---- scrape_locale ----
    cpc,                 \* "idle" | "loop" | "returned"
    runs,                \* scrape_locale runs started
    force,               \* parameter force
    max_pages,           \* parameter max_pages
    override_given,      \* urls_override is not None
    urls_override,       \* parameter urls_override
    visited,             \* visited
    queue,               \* queue
    downloaded,          \* stats["downloaded"]
    skipped,             \* stats["skipped"]
    errors,              \* stats["errors"]
    failed_urls,         \* stats["failed_urls"]
    events,              \* what the run did, in order: the seed fetch and each pop
    start_files,         \* parsed_files when the run started
    prev,                \* parameters and returned stats of the run before
    \* ---- the chunker, on one section ----
    kpc,                 \* "input" | "split" | "overlap" | "merge" | "done";
                         \* "merge_input" | "merged" for _merge_small alone
    raw_text,            \* the section's text, a sequence of characters
    chunk_size,          \* chunk_size_chars
    chunk_overlap,       \* chunk_overlap_chars
    chunk_min,           \* chunk_min_chars
    norm,                \* normalize_text(raw_text)
    base_split,          \* base_chunks after _split_by_separators
    base_overlap,        \* base_chunks after _apply_overlap
    base_merged,         \* base_chunks after _merge_small
    sec_chunks,          \* what _section_chunks returns
    \* ---- chunk_article, on one article ----
    apc,                 \* "idle" | "input" | "returned" | "raised"
    article,             \* the ArticleParsed passed to chunk_article
    normalize_bullets,   \* get_settings().normalize_bullets
    article_chunks,      \* what the last chunk_article call returned
    first_chunks,        \* what the first chunk_article call returned
    ncalls,              \* chunk_article calls made on the article
    \* ---- canonicalize_url, on URL strings ----
    upc,                 \* "idle" | "input" | "done"
    url_in,              \* a URL, as the characters after scheme and host
    url_other,           \* another URL of the same site
    url_out,             \* canonicalize_url(url_in)
    url_again,           \* canonicalize_url(url_out)
    url_other_out,       \* canonicalize_url(url_other)
    \* ---- preprocess_locale and the chunk store of one site ----
    parsed_dir_exists,   \* inp_dir/<site> exists
    parsed_articles,     \* inp_dir/<site>/<slug>.json: what each file holds
    chunks_jsonl,        \* out_dir/<site>/chunks.jsonl, its records in order
    index_json,          \* article_hashes of out_dir/<site>/index.json
    pre_runs,            \* preprocess_locale runs made
    pre_force,           \* parameter force of the last run
    pre_chunked,         \* slugs the last run called chunk_article for
    pre_errors,          \* errors of the last run's summary
    pre_seen,            \* parsed_articles as the last run found them
    rewrites,            \* parsed files written since the start
    \* ---- two scrape_locale runs from the same output directory ----
    download_assets_flag,\* parameter download_assets_flag
    assets,              \* stats["assets"]
    img_log,             \* the image requests of the last iteration, with outcomes
    restored,            \* the output directory was put back as the run found it
    prev_events,         \* what the run before the restore did, in order
    \* ---- main of scrape_helpcenter.py, the multi-site runner ----
    rpc,                 \* "idle" | "sites" | "done"
    sites,               \* parse_sites_arg(args.sites)
    site_pos,            \* the position of `for site_code in sites`
    auth_state_dir,      \* args.auth_state_dir is given
    auth_states,         \* the sites with a <site>.json in auth_state_dir
    total,               \* total
    failed,              \* failed
    retries,             \* retries
    site_stats,          \* what each scrape_locale call returned, in order
    last_retry,          \* the urls the last iteration resubmitted, with outcomes
    auth_saved,          \* the pages save_artifacts wrote after an authenticated fetch
    report,              \* scrape_report.json
    exit_code,           \* what main returned
    \* ---- _section_chunks, statement by statement ----
    stack,               \* the frames of _split_by_separators, innermost last
    midx                 \* idx of the loop of _merge_small

fetchVars == <<now, rate_limit_seconds, last_request_ts, fpc, attempt, outcomes,
               sleeps, nreq, prevIssued, lastIssued, retStatus, calls>>

siteVars == <<site_index, site_links, parsed_files, site_images, asset_files>>

crawlVars == <<cpc, runs, force, max_pages, override_given, urls_override, visited,
               queue, downloaded, skipped, errors, failed_urls, events,
               start_files, prev, download_assets_flag, assets, img_log>>

chunkVars == <<kpc, raw_text, chunk_size, chunk_overlap, chunk_min, norm,
               base_split, base_overlap, base_merged, sec_chunks>>

articleVars == <<apc, article, normalize_bullets, article_chunks, first_chunks,
                 ncalls>>

urlVars == <<upc, url_in, url_other, url_out, url_again, url_other_out>>

storeVars == <<parsed_dir_exists, parsed_articles, chunks_jsonl, index_json,
               pre_runs, pre_force, pre_chunked, pre_errors, pre_seen, rewrites>>

twinVars == <<restored, prev_events>>

runnerVars == <<rpc, sites, site_pos, auth_state_dir, auth_states, total, failed,
                retries, site_stats, last_retry, auth_saved, report, exit_code>>

stepVars == <<stack, midx>>

auxVars == <<twinVars, runnerVars, stepVars>>

vars == <<fetchVars, siteVars, crawlVars, chunkVars, articleVars, urlVars,
          storeVars, auxVars>>

-----------------------------------------------------------------------------
(* Bounds of the model *)
MaxRateLimit == 2
MaxLatency == 1
MaxGap == 1
MaxCalls == 2
MaxRuns == 2
MaxIndexLinks == 2
MaxOutLinks == 1
MaxOverride == 1
MaxBudget == 1
MaxFailures == 1
MaxImages == 2
MaxSites == 2
MaxSiteFailed == 2
MaxTextLen == 6
MaxSize == 3
MaxStepLen == 4
MaxMergeChunks == 3
MaxPieceLen == 2
MaxMergeSize == 5
MaxSections == 3
MaxArticleSize == 2
MaxArticleCalls == 2
MaxUrlLen == 3
MaxPreRuns == 3
MaxRewrites == 2

-----------------------------------------------------------------------------
(* polite_get *)

DEFAULT_RETRIES_Four == 3 + 1
DEFAULT_RETRIES == 3

BACKOFF_SECONDS == <<1, 2, 4>>

RETRYABLE == {429, 500, 502, 503, 504}

\* A request that ended in requests.RequestException has no status.
NetworkFailure == 0

\* The statuses the server answers with.
Statuses == {101, 200, 204, 304, 404, 429, 500, 501, 502, 503, 504}

Min(a, b) == IF a < b THEN a ELSE b

\* BACKOFF_SECONDS[min(attempt, len(BACKOFF_SECONDS) - 1)], attempt 0-based
BackoffDelayNext(att) == BACKOFF_SECONDS[Min(att + 1, Len(BACKOFF_SECONDS) - 1) + 1]
BackoffDelay(att) == BACKOFF_SECONDS[Min(att, Len(BACKOFF_SECONDS) - 1) + 1]

\* requests.Response.raise_for_status: HTTPError for 400 <= status < 600
RaiseForStatusServerOnly(status) == 500 <= status /\ status < 600
RaiseForStatus(status) == 400 <= status /\ status < 600

\* FetchContext.wait_for_rate_limit: how long it sleeps at time t
RateLimitWait(t) ==
    LET elapsed == t - last_request_ts
    IN  IF elapsed < rate_limit_seconds THEN rate_limit_seconds - elapsed ELSE 0

\* time.time() is far from the initial last_request_ts = 0.0
EpochNow == MaxRateLimit + 1

FetchInit ==
    /\ now = EpochNow
    /\ rate_limit_seconds \in 0..MaxRateLimit
    /\ last_request_ts = 0
    /\ fpc = "idle"
    /\ attempt = 0
    /\ outcomes = <<>>
    /\ sleeps = <<>>
    /\ nreq = 0
    /\ prevIssued = -1
    /\ lastIssued = -1
    /\ retStatus = -1
    /\ calls = 0

\* A caller enters polite_get(ctx, url), some time after the previous call.
PoliteGetStart ==
    /\ fpc \in {"idle", "returned", "raised"}
    /\ calls < MaxCalls
    /\ \E gap \in 0..MaxGap : now' = now + gap
    /\ calls' = calls + 1
    /\ fpc' = "loop"
    /\ attempt' = 0
    /\ outcomes' = <<>>
    /\ sleeps' = <<>>
    /\ nreq' = 0
    /\ retStatus' = -1
    /\ UNCHANGED <<rate_limit_seconds, last_request_ts, prevIssued, lastIssued>>

\* One iteration of `for attempt in range(DEFAULT_RETRIES)`.
PoliteGetAttempt ==
    /\ fpc = "loop"
    /\ attempt < DEFAULT_RETRIES
    /\ \E outcome \in Statuses \cup {NetworkFailure}, latency \in 0..MaxLatency :
        LET issued == now + RateLimitWait(now)
            done   == issued + latency
            last   == attempt = DEFAULT_RETRIES - 1
        IN
        /\ prevIssued' = lastIssued
        /\ lastIssued' = issued
        /\ nreq' = nreq + 1
        /\ outcomes' = Append(outcomes, outcome)
        /\ IF outcome = NetworkFailure
           THEN \* except requests.RequestException: the timestamp is not updated
                /\ last_request_ts' = last_request_ts
                /\ retStatus' = retStatus
                /\ IF last
                   THEN /\ fpc' = "raised"
                        /\ now' = done
                        /\ UNCHANGED <<attempt, sleeps>>
                   ELSE /\ fpc' = "loop"
                        /\ now' = done + BackoffDelay(attempt)
                        /\ sleeps' = Append(sleeps, BackoffDelay(attempt))
                        /\ attempt' = attempt + 1
           ELSE /\ last_request_ts' = done
                /\ IF outcome \in RETRYABLE
                   THEN IF last /\ RaiseForStatus(outcome)
                        THEN /\ fpc' = "raised"
                             /\ now' = done
                             /\ UNCHANGED <<attempt, sleeps, retStatus>>
                        ELSE /\ now' = done + BackoffDelay(attempt)
                             /\ sleeps' = Append(sleeps, BackoffDelay(attempt))
                             /\ attempt' = attempt + 1
                             \* the loop ran out: `return resp` after the loop
                             /\ fpc' = IF last THEN "returned" ELSE "loop"
                             /\ retStatus' = IF last THEN outcome ELSE retStatus
                   ELSE IF RaiseForStatus(outcome)
                        THEN /\ fpc' = "raised"
                             /\ now' = done
                             /\ UNCHANGED <<attempt, sleeps, retStatus>>
                        ELSE /\ fpc' = "returned"
                             /\ retStatus' = outcome
                             /\ now' = done
                             /\ UNCHANGED <<attempt, sleeps>>
    /\ UNCHANGED <<rate_limit_seconds, calls>>

-----------------------------------------------------------------------------
(* URLs.  A URL is its path segments, the number of slashes that end the   *)
(* path, its query and its fragment; scheme and host are those of the site. *)

Url(segs, trail, query, fragment) ==
    [segs |-> segs, trail |-> trail, query |-> query, fragment |-> fragment]

\* path.rstrip("/") or "/", then one "/" appended; query and fragment emptied
canonicalize_url(u) == Url(u.segs, 1, "", "")

\* re.sub(r"[^a-zA-Z0-9_-]+", "-", slug).strip("-") or "page", on the
\* segments of this site
Sanitize(seg) == CASE seg = "b.1" -> "b-1"
                   [] seg = "" -> "page"
                   [] OTHER -> seg

slug_from_url(u) ==
    IF u.segs = <<>> THEN Sanitize("index") ELSE Sanitize(u.segs[Len(u.segs)])

site_code == "ru"
base_url == Url(<<"helpcenter">>, 1, "", "")
PageA    == Url(<<"helpcenter", "a">>, 1, "", "")
PageXA   == Url(<<"helpcenter", "x", "a">>, 1, "", "")
PageB    == Url(<<"helpcenter", "b.1">>, 1, "", "")

\* the canonical in-scope URLs of the site; PageA and PageXA share a slug
Pages == {base_url, PageA, PageXA, PageB}
\* URLs a caller may pass in urls_override
RawUrls == {PageA, PageB, Url(<<"helpcenter", "a">>, 0, "utm=1", "top")}
Categories == {"Payments"}

SeqsUpTo(S, n) == UNION {[1..k -> S] : k \in 0..n}

\* http_status of a failure that carries no response
None == -1
\* the statuses of page requests that end in HTTPError
PageHttpErrors == {404}

-----------------------------------------------------------------------------
(* canonicalize_url on the characters of a URL.  A URL string is written   *)
(* as what follows its scheme and host: path, "?" query, "#" fragment.     *)

UrlChars == {"a", "/", "?", "#"}

FirstIndex(t, S) ==
    LET hits == {i \in 1..Len(t) : t[i] \in S}
    IN  IF hits = {} THEN Len(t) + 1
        ELSE CHOOSE i \in hits : \A j \in hits : i <= j

\* urlsplit: the fragment follows the first "#", the query the first "?"
\* before it, the path is the rest
urlsplit(u) ==
    LET h    == FirstIndex(u, {"#"})
        body == SubSeq(u, 1, h - 1)
        q    == FirstIndex(body, {"?"})
    IN  [path |-> SubSeq(body, 1, q - 1),
         query |-> SubSeq(body, q + 1, Len(body)),
         fragment |-> SubSeq(u, h + 1, Len(u))]

\* urlunsplit: "?" and "#" are written only before a non-empty part
urlunsplit(parts) ==
    parts.path
      \o (IF parts.query # <<>> THEN <<"?">> \o parts.query ELSE <<>>)
      \o (IF parts.fragment # <<>> THEN <<"#">> \o parts.fragment ELSE <<>>)

\* path.rstrip("/")
RStripSlashOnce(path) ==
    IF path # <<>> /\ path[Len(path)] = "/" THEN SubSeq(path, 1, Len(path) - 1)
    ELSE path
RStripSlash(path) ==
    LET solid == {i \in 1..Len(path) : path[i] # "/"}
    IN  IF solid = {} THEN <<>>
        ELSE SubSeq(path, 1, CHOOSE i \in solid : \A j \in solid : i >= j)

\* canonicalize_url, character by character
canonicalize_url_str(u) ==
    LET parts    == urlsplit(u)
        stripped == RStripSlash(parts.path)
        nonempty == IF stripped = <<>> THEN <<"/">> ELSE stripped
        clean    == IF nonempty[Len(nonempty)] = "/" THEN nonempty
                    ELSE Append(nonempty, "/")
    IN  urlunsplit([path |-> clean, query |-> <<>>, fragment |-> <<>>])

\* the strings that continue scheme and host as a path, a query or a fragment
UrlStrings ==
    {u \in SeqsUpTo(UrlChars, MaxUrlLen) : u = <<>> \/ u[1] \in {"/", "?", "#"}}

UrlIdle ==
    /\ upc = "idle"
    /\ url_in = <<>>
    /\ url_other = <<>>
    /\ url_out = <<>>
    /\ url_again = <<>>
    /\ url_other_out = <<>>

UrlInit ==
    /\ upc = "input"
    /\ url_in \in UrlStrings
    /\ url_other \in UrlStrings
    /\ url_out = <<>>
    /\ url_again = <<>>
    /\ url_other_out = <<>>

\* canonicalize_url applied to the two URLs, and again to the first result
Canonicalize ==
    /\ upc = "input"
    /\ upc' = "done"
    /\ url_out' = canonicalize_url_str(url_in)
    /\ url_again' = canonicalize_url_str(canonicalize_url_str(url_in))
    /\ url_other_out' = canonicalize_url_str(url_other)
    /\ UNCHANGED <<url_in, url_other>>

-----------------------------------------------------------------------------
(* scrape_locale *)

ParsedExists(slug) == \E f \in parsed_files : f.slug = slug

should_skip_never(slug, frc) == FALSE
should_skip_forced(slug, frc) == ParsedExists(slug)
should_skip(slug, frc) == ParsedExists(slug) /\ ~frc

\* `if max_pages and stats["downloaded"] >= max_pages`
BudgetReachedLate(mp, done) == mp # 0 /\ done > mp
BudgetReached(mp, done) == mp # 0 /\ done >= mp

\* save_artifacts: parsed/<site>/<slug>.json is (over)written
WriteParsed(files, url) ==
    {f \in files : f.slug # slug_from_url(url)}
        \cup {[slug |-> slug_from_url(url), url |-> url]}

\* for link in article["outbound_links"]: if link not in visited: queue.append
EnqueueFront(q, links, vis, category) ==
    [i \in 1..Len(SelectSeq(links, LAMBDA l : l \notin vis)) |->
            [url |-> SelectSeq(links, LAMBDA l : l \notin vis)[i],
             category |-> category]] \o q
Enqueue(q, links, vis, category) ==
    q \o [i \in 1..Len(SelectSeq(links, LAMBDA l : l \notin vis)) |->
            [url |-> SelectSeq(links, LAMBDA l : l \notin vis)[i],
             category |-> category]]

\* a loop that never marks a url as visited
MarkVisitedNever(vis, url) == vis
\* visited.add(url), and a variant that also marks the site's index page
MarkVisitedWithBase(vis, url) == vis \cup {url, base_url}
\* a variant that marks every queued url as visited as well
MarkVisitedQueued(vis, url) ==
    vis \cup {url} \cup {canonicalize_url(queue[i].url) : i \in 1..Len(queue)}
MarkVisited(vis, url) == vis \cup {url}

FailedUrl(url, error, status) ==
    [url |-> url, error |-> error, site_code |-> site_code, http_status |-> status]

\* download_assets.  An image is its src; NoSrc is an image without one.
\* outs[i] is what happens to image i when it is requested and written:
\* "ok", "request_err" (session.get or raise_for_status raised a
\* RequestException) or "write_err" (path.write_bytes raised).
NoSrc == ""
ImageSrcs == {"i1", "i2", NoSrc}
AssetName(src) == <<"sha1", src>>
NoAssets == [raised |-> FALSE, downloaded |-> 0, files |-> {}, log |-> <<>>]

\* one pass of `for img in images`, where a RequestException is not caught
AssetStepRaising(st, src, out) ==
    IF st.raised \/ src = NoSrc THEN st
    ELSE [raised     |-> out # "ok",
          downloaded |-> st.downloaded + (IF out = "ok" THEN 1 ELSE 0),
          files      |-> st.files \cup (IF out = "ok" THEN {AssetName(src)} ELSE {}),
          log        |-> Append(st.log, [src |-> src, outcome |-> out])]
\* one pass of `for img in images`
AssetStep(st, src, out) ==
    IF st.raised \/ src = NoSrc THEN st
    ELSE [raised     |-> out = "write_err",
          downloaded |-> st.downloaded + (IF out = "ok" THEN 1 ELSE 0),
          files      |-> st.files \cup (IF out = "ok" THEN {AssetName(src)} ELSE {}),
          log        |-> Append(st.log, [src |-> src, outcome |-> out])]

download_assets(images, outs) ==
    LET F[i \in 0..Len(images)] ==
            IF i = 0 THEN NoAssets ELSE AssetStep(F[i - 1], images[i], outs[i])
    IN  F[Len(images)]

\* `if download_assets_flag: stats["assets"] += download_assets(...)`
PageAssets(flag, images, outs) ==
    IF flag THEN download_assets(images, outs) ELSE NoAssets

\* what the requests for the images of a page may end in; without the flag
\* download_assets is not called
ImageOutcomes(flag, images) ==
    IF flag THEN [1..Len(images) -> {"ok", "request_err", "write_err"}]
    ELSE {<<>>}

\* the stats returned when the index fetch fails
IndexFailureStatsEmpty ==
    [downloaded |-> 0, skipped |-> 0, errors |-> 0, failed_urls |-> <<>>]
IndexFailureStats ==
    [downloaded |-> 0, skipped |-> 0, errors |-> 1,
     failed_urls |-> <<FailedUrl(base_url, "index", None)>>]

Event(url, what) == [url |-> url, what |-> what]
PageFailures == {"fetch_err", "extract_err", "persist_err", "persist_partial"}
\* download_assets raised (path.write_bytes)
AssetFailure == "asset_err"
\* the events that issued a request for the event's url
FetchEvents == {"index_ok", "index_err", "ok", AssetFailure} \cup PageFailures
PageFetchEvents == {"ok", AssetFailure} \cup PageFailures

NoPrev ==
    [valid |-> FALSE, force |-> FALSE, max_pages |-> 0, downloaded |-> 0,
     skipped |-> 0, errors |-> 0, empty_start |-> FALSE]

CrawlIdle ==
    /\ cpc = "idle"
    /\ runs = 0
    /\ force = FALSE
    /\ max_pages = 0
    /\ visited = {}
    /\ queue = <<>>
    /\ downloaded = 0
    /\ skipped = 0
    /\ errors = 0
    /\ failed_urls = <<>>
    /\ events = <<>>
    /\ start_files = {}
    /\ prev = NoPrev
    /\ download_assets_flag = FALSE
    /\ assets = 0
    /\ img_log = <<>>

NoImages == [p \in Pages |-> <<>>]

SiteIdle ==
    /\ override_given = FALSE
    /\ urls_override = <<>>
    /\ site_index = <<>>
    /\ site_links = [p \in Pages |-> [known |-> FALSE, links |-> <<>>]]
    /\ parsed_files = {}
    /\ site_images = NoImages
    /\ asset_files = {}

\* The output directory is empty.  The caller seeds every run the same way:
\* from the site's index page, which lists some in-scope links, or from an
\* override list (the index page is then never read).
CrawlInit ==
    /\ CrawlIdle
    /\ \/ /\ override_given = FALSE
          /\ urls_override = <<>>
          /\ site_index \in SeqsUpTo([url : Pages, category : Categories],
                                     MaxIndexLinks)
       \/ /\ override_given = TRUE
          /\ urls_override \in SeqsUpTo([url : RawUrls, category : Categories],
                                        MaxOverride)
          /\ site_index = <<>>
    /\ site_links = [p \in Pages |-> [known |-> FALSE, links |-> <<>>]]
    /\ parsed_files = {}
    /\ site_images = NoImages
    /\ asset_files = {}

\* `except Exception as exc` in the loop, with break in place of continue
PageFailedBreaks(url, what, status) ==
    /\ errors' = errors + 1
    /\ failed_urls' = Append(failed_urls, FailedUrl(url, what, status))
    /\ cpc' = "returned"
    /\ UNCHANGED <<downloaded, skipped>>
\* a handler that counts the failure without recording the url
PageFailedUnrecorded(url, what, status) ==
    /\ errors' = errors + 1
    /\ failed_urls' = failed_urls
    /\ UNCHANGED <<cpc, downloaded, skipped>>
\* `except Exception as exc` in the loop: count, record, continue
PageFailed(url, what, status) ==
    /\ errors' = errors + 1
    /\ failed_urls' = Append(failed_urls, FailedUrl(url, what, status))
    /\ UNCHANGED <<cpc, downloaded, skipped>>

\* scrape_locale up to its while loop: the session, the seed, the stats
ScrapeStart ==
    /\ cpc \in {"idle", "returned"}
    /\ runs < MaxRuns
    /\ runs' = runs + 1
    /\ prev' = [valid |-> cpc = "returned", force |-> force, max_pages |-> max_pages,
                downloaded |-> downloaded, skipped |-> skipped, errors |-> errors,
                empty_start |-> start_files = {}]
    /\ start_files' = parsed_files
    /\ visited' = {}
    /\ assets' = 0
    /\ img_log' = <<>>
    /\ \E f \in BOOLEAN, mp \in 0..MaxBudget :
        /\ force' = f
        /\ max_pages' = mp
        /\ IF override_given
           THEN /\ queue' = urls_override
                /\ events' = <<>>
                /\ cpc' = "loop"
                /\ downloaded' = 0 /\ skipped' = 0 /\ errors' = 0
                /\ failed_urls' = <<>>
           ELSE \E index_ok \in BOOLEAN :
                IF index_ok
                THEN /\ queue' = site_index
                     /\ events' = <<Event(base_url, "index_ok")>>
                     /\ cpc' = "loop"
                     /\ downloaded' = 0 /\ skipped' = 0 /\ errors' = 0
                     /\ failed_urls' = <<>>
                ELSE /\ queue' = <<>>
                     /\ events' = <<Event(base_url, "index_err")>>
                     /\ cpc' = "returned"
                     /\ downloaded' = IndexFailureStats.downloaded
                     /\ skipped' = IndexFailureStats.skipped
                     /\ errors' = IndexFailureStats.errors
                     /\ failed_urls' = IndexFailureStats.failed_urls
    /\ UNCHANGED <<override_given, urls_override, download_assets_flag, siteVars>>

\* One iteration of `while queue`.
LoopStep ==
    /\ cpc = "loop"
    /\ queue # <<>>
    /\ LET url      == canonicalize_url(Head(queue).url)
           category == Head(queue).category
           slug     == slug_from_url(url)
       IN
       /\ IF url \in visited
          THEN /\ queue' = Tail(queue)
               /\ events' = Append(events, Event(url, "dup"))
               /\ img_log' = <<>>
               /\ UNCHANGED <<cpc, visited, downloaded, skipped, errors, failed_urls,
                              assets, siteVars>>
          ELSE
          /\ visited' = MarkVisited(visited, url)
          /\ IF BudgetReached(max_pages, downloaded)
             THEN \* break, then return stats
                  /\ queue' = Tail(queue)
                  /\ events' = Append(events, Event(url, "break"))
                  /\ cpc' = "returned"
                  /\ img_log' = <<>>
                  /\ UNCHANGED <<downloaded, skipped, errors, failed_urls, assets,
                                 siteVars>>
             ELSE IF should_skip(slug, force)
             THEN /\ queue' = Tail(queue)
                  /\ skipped' = skipped + 1
                  /\ events' = Append(events, Event(url, "skip"))
                  /\ img_log' = <<>>
                  /\ UNCHANGED <<cpc, downloaded, errors, failed_urls, assets,
                                 siteVars>>
             ELSE
             \/ \* fetched, extracted, assets downloaded, persisted
                \E links \in (IF site_links[url].known THEN {site_links[url].links}
                              ELSE SeqsUpTo(Pages, MaxOutLinks)),
                   outs \in ImageOutcomes(download_assets_flag, site_images[url]) :
                  LET got == PageAssets(download_assets_flag, site_images[url], outs) IN
                  /\ ~got.raised
                  /\ assets' = assets + got.downloaded
                  /\ asset_files' = asset_files \cup got.files
                  /\ img_log' = got.log
                  /\ site_links' = [site_links EXCEPT ![url] =
                                        [known |-> TRUE, links |-> links]]
                  /\ parsed_files' = WriteParsed(parsed_files, url)
                  /\ downloaded' = downloaded + 1
                  /\ queue' = Enqueue(Tail(queue), links, visited', category)
                  /\ events' = Append(events, Event(url, "ok"))
                  /\ UNCHANGED <<cpc, skipped, errors, failed_urls, site_index,
                                 site_images>>
             \/ \* polite_get or extract_article raised
                \E what \in {"fetch_err", "extract_err"}, status \in PageHttpErrors :
                  /\ Len(failed_urls) < MaxFailures
                  /\ PageFailed(url, what,
                                IF what = "fetch_err" THEN status ELSE None)
                  /\ queue' = Tail(queue)
                  /\ events' = Append(events, Event(url, what))
                  /\ img_log' = <<>>
                  /\ UNCHANGED <<assets, siteVars>>
             \/ \* download_assets raised: an image could not be written
                \E outs \in ImageOutcomes(download_assets_flag, site_images[url]) :
                  LET got == PageAssets(download_assets_flag, site_images[url], outs) IN
                  /\ got.raised
                  /\ Len(failed_urls) < MaxFailures
                  /\ asset_files' = asset_files \cup got.files
                  /\ img_log' = got.log
                  /\ PageFailed(url, AssetFailure, None)
                  /\ queue' = Tail(queue)
                  /\ events' = Append(events, Event(url, AssetFailure))
                  /\ UNCHANGED <<assets, site_index, site_links, parsed_files,
                                 site_images>>
             \/ \* save_artifacts raised, after the assets were downloaded
                \E what \in {"persist_err", "persist_partial"},
                   outs \in ImageOutcomes(download_assets_flag, site_images[url]) :
                  LET got == PageAssets(download_assets_flag, site_images[url], outs) IN
                  /\ ~got.raised
                  /\ Len(failed_urls) < MaxFailures
                  /\ assets' = assets + got.downloaded
                  /\ asset_files' = asset_files \cup got.files
                  /\ img_log' = got.log
                  /\ parsed_files' = IF what = "persist_partial"
                                     THEN WriteParsed(parsed_files, url)
                                     ELSE parsed_files
                  /\ PageFailed(url, what, None)
                  /\ queue' = Tail(queue)
                  /\ events' = Append(events, Event(url, what))
                  /\ UNCHANGED <<site_index, site_links, site_images>>
    /\ UNCHANGED <<runs, force, max_pages, override_given, urls_override,
                   start_files, prev, download_assets_flag>>

\* The queue is empty: return stats.
ScrapeReturn ==
    /\ cpc = "loop"
    /\ queue = <<>>
    /\ cpc' = "returned"
    /\ UNCHANGED <<runs, force, max_pages, override_given, urls_override, visited,
                   queue, downloaded, skipped, errors, failed_urls, events,
                   start_files, prev, download_assets_flag, assets, img_log,
                   siteVars>>

-----------------------------------------------------------------------------
(* Text.  A string is a sequence of characters.                            *)

SP == " "
NL == "\n"
DOT == "."
Alphabet == {"a", SP, NL, DOT}
IsSpace(c) == c \in {SP, NL}

\* the characters of t at the indexes in keep, in order
KeepIdx(t, keep) ==
    LET F[i \in 0..Len(t)] ==
            IF i = 0 THEN <<>>
            ELSE IF i \in keep THEN Append(F[i - 1], t[i]) ELSE F[i - 1]
    IN  F[Len(t)]

\* the run of whitespace around index i of t (t[i] is whitespace)
RunLo(t, i) == CHOOSE j \in 1..i :
    /\ \A k \in j..i : IsSpace(t[k])
    /\ (j = 1 \/ ~IsSpace(t[j - 1]))
RunHi(t, i) == CHOOSE j \in i..Len(t) :
    /\ \A k \in i..j : IsSpace(t[k])
    /\ (j = Len(t) \/ ~IsSpace(t[j + 1]))
SetMin(S) == CHOOSE x \in S : \A y \in S : x <= y
SetMax(S) == CHOOSE x \in S : \A y \in S : x >= y

\* MULTISPACE_PATTERN.sub(" ", ...): a run of spaces becomes one space
CollapseSpaces(t) ==
    KeepIdx(t, {i \in 1..Len(t) : ~(t[i] = SP /\ i > 1 /\ t[i - 1] = SP)})

\* MULTINEWLINE_PATTERN.sub("\n\n", ...): in a run of whitespace with three
\* or more newlines, what lies from its first to its last newline becomes
\* two newlines
CollapseNewlines(t) ==
    LET Newlines(i) == {k \in RunLo(t, i)..RunHi(t, i) : t[k] = NL}
        Dropped(i) == /\ IsSpace(t[i])
                      /\ Cardinality(Newlines(i)) >= 3
                      /\ i >= SetMin(Newlines(i)) + 2
                      /\ i <= SetMax(Newlines(i))
        Second(i)  == /\ IsSpace(t[i])
                      /\ Cardinality(Newlines(i)) >= 3
                      /\ i = SetMin(Newlines(i)) + 1
        u == [i \in 1..Len(t) |-> IF Second(i) THEN NL ELSE t[i]]
    IN  KeepIdx(u, {i \in 1..Len(t) : ~Dropped(i)})

\* SPACE_BEFORE_PUNCT.sub(r"\1", ...): whitespace before punctuation goes
DropSpaceBeforePunct(t) ==
    KeepIdx(t, {i \in 1..Len(t) :
        ~(IsSpace(t[i]) /\ RunHi(t, i) < Len(t) /\ t[RunHi(t, i) + 1] = DOT)})

\* str.strip()
Strip(t) ==
    LET solid == {i \in 1..Len(t) : ~IsSpace(t[i])}
    IN  IF solid = {} THEN <<>> ELSE SubSeq(t, SetMin(solid), SetMax(solid))

\* the bullet glyphs of BULLET_PATTERN that occur in the texts
STAR == "*"
DASH == "-"
BulletGlyphs == {STAR, DASH}

RECURSIVE BulletsFrom(_, _)
\* BULLET_PATTERN.sub("- ", ...) on t from index i: a glyph that starts a
\* line, with the whitespace after it, becomes "- "
BulletsFrom(t, i) ==
    IF i > Len(t) THEN <<>>
    ELSE IF t[i] \in BulletGlyphs /\ (i = 1 \/ t[i - 1] = NL)
    THEN LET e == IF i < Len(t) /\ IsSpace(t[i + 1]) THEN RunHi(t, i + 1) ELSE i
         IN  <<DASH, SP>> \o BulletsFrom(t, e + 1)
    ELSE <<t[i]>> \o BulletsFrom(t, i + 1)

NormalizeBullets(t, do_bullets) == IF do_bullets THEN BulletsFrom(t, 1) ELSE t

\* normalize_text on these characters (no entities, zero-width characters,
\* tabs or carriage returns occur in the texts)
normalize_text(t, do_bullets) ==
    Strip(DropSpaceBeforePunct(
        NormalizeBullets(CollapseNewlines(CollapseSpaces(t)), do_bullets)))

-----------------------------------------------------------------------------
(* The chunker *)

\* the separators, finest first
DEFAULT_SEPARATORS_FinestFirst == <<<<SP>>, <<DOT, SP>>, <<NL>>, <<NL, NL>>>>
DEFAULT_SEPARATORS == <<<<NL, NL>>, <<NL>>, <<DOT, SP>>, <<SP>>>>

RECURSIVE StrSplit(_, _)
\* text.split(sep)
StrSplit(t, sep) ==
    LET hits == {i \in 1..(Len(t) - Len(sep) + 1) :
                    SubSeq(t, i, i + Len(sep) - 1) = sep}
    IN  IF hits = {} THEN <<t>>
        ELSE LET i == SetMin(hits)
             IN  <<SubSeq(t, 1, i - 1)>>
                   \o StrSplit(SubSeq(t, i + Len(sep), Len(t)), sep)

\* no fallback: the item is kept whole
SlicesWhole(item, max_len) == <<item>>

RECURSIVE Slices(_, _)
\* item[start : start + window] for start = 0, max_len, ...
Slices(item, max_len) ==
    IF Len(item) <= max_len THEN (IF item = <<>> THEN <<>> ELSE <<item>>)
    ELSE <<SubSeq(item, 1, max_len)>>
           \o Slices(SubSeq(item, max_len + 1, Len(item)), max_len)

RECURSIVE Windowed(_, _)
\* the fallback loop that ends _split_by_separators
Windowed(chunks, max_len) ==
    IF chunks = <<>> THEN <<>>
    ELSE (IF Len(Head(chunks)) <= max_len THEN <<Head(chunks)>>
          ELSE Slices(Head(chunks), max_len))
           \o Windowed(Tail(chunks), max_len)

RECURSIVE _split_by_separators(_, _, _)
_split_by_separators(text, max_len, separators) ==
    IF Len(text) <= max_len \/ separators = <<>> THEN <<text>>
    ELSE
    LET sep   == Head(separators)
        parts == StrSplit(text, sep)
        Step(st, part) ==
            LET candidate == IF st.buf # <<>> THEN st.buf \o sep \o part ELSE part
                flushed   == IF st.buf # <<>> THEN Append(st.chunks, st.buf)
                             ELSE st.chunks
            IN  IF Len(candidate) <= max_len
                THEN [chunks |-> st.chunks, buf |-> candidate]
                ELSE IF Len(part) > max_len /\ Len(separators) > 1
                THEN [chunks |-> flushed
                                   \o _split_by_separators(part, max_len,
                                                           Tail(separators)),
                      buf |-> <<>>]
                ELSE [chunks |-> flushed, buf |-> part]
        F[i \in 0..Len(parts)] ==
            IF i = 0 THEN [chunks |-> <<>>, buf |-> <<>>]
            ELSE Step(F[i - 1], parts[i])
        last == F[Len(parts)]
        chunks == IF last.buf # <<>> THEN Append(last.chunks, last.buf)
                  ELSE last.chunks
    IN  Windowed(chunks, max_len)

\* prev[-overlap:] if len(prev) > overlap else prev
OverlapPrefix(prv, overlap) ==
    IF Len(prv) > overlap THEN SubSeq(prv, Len(prv) - overlap + 1, Len(prv))
    ELSE prv

\* the overlap taken from the chunk before as the split returned it
_apply_overlap_from_base(chunks, overlap) ==
    IF overlap <= 0 \/ Len(chunks) <= 1 THEN chunks
    ELSE [i \in 1..Len(chunks) |->
            IF i = 1 THEN chunks[1]
            ELSE OverlapPrefix(chunks[i - 1], overlap) \o chunks[i]]

_apply_overlap(chunks, overlap) ==
    IF overlap <= 0 \/ Len(chunks) <= 1 THEN chunks
    ELSE
    LET W[i \in 1..Len(chunks)] ==
            IF i = 1 THEN chunks[1]
            ELSE OverlapPrefix(W[i - 1], overlap) \o chunks[i]
    IN  [i \in 1..Len(chunks) |-> W[i]]

RECURSIVE MergeFrom(_, _, _, _)
\* the while loop of _merge_small, from idx (1-based) on
MergeFrom(chunks, idx, min_len, max_len) ==
    IF idx > Len(chunks) THEN <<>>
    ELSE IF Len(chunks[idx]) >= min_len \/ idx = Len(chunks)
    THEN <<chunks[idx]>> \o MergeFrom(chunks, idx + 1, min_len, max_len)
    ELSE IF Len(chunks[idx]) + Len(chunks[idx + 1]) <= max_len
    THEN <<chunks[idx] \o <<NL>> \o chunks[idx + 1]>>
           \o MergeFrom(chunks, idx + 2, min_len, max_len)
    ELSE <<chunks[idx]>> \o MergeFrom(chunks, idx + 1, min_len, max_len)

\* a pass that drops every chunk shorter than min_len
_merge_small_dropping(chunks, min_len, max_len) ==
    SelectSeq(chunks, LAMBDA c : Len(c) >= min_len)
_merge_small(chunks, min_len, max_len) ==
    IF chunks = <<>> THEN <<>> ELSE MergeFrom(chunks, 1, min_len, max_len)

\* [c.strip() for c in base_chunks if c.strip()]
StripAll(chunks) ==
    LET stripped == [i \in 1..Len(chunks) |-> Strip(chunks[i])]
    IN  SelectSeq(stripped, LAMBDA c : c # <<>>)

ChunkIdle ==
    /\ kpc = "input"
    /\ raw_text = <<>>
    /\ chunk_size = 1
    /\ chunk_overlap = 0
    /\ chunk_min = 0
    /\ norm = <<>>
    /\ base_split = <<>>
    /\ base_overlap = <<>>
    /\ base_merged = <<>>
    /\ sec_chunks = <<>>

\* A section text and the three size parameters, with 1 <= size,
\* 0 <= overlap < size and min <= size.
ChunkInit ==
    /\ kpc = "input"
    /\ raw_text \in SeqsUpTo(Alphabet, MaxTextLen)
    /\ chunk_size \in 1..MaxSize
    /\ chunk_overlap \in 0..(MaxSize - 1)
    /\ chunk_min \in 0..MaxSize
    /\ chunk_overlap < chunk_size
    /\ chunk_min <= chunk_size
    /\ norm = <<>>
    /\ base_split = <<>>
    /\ base_overlap = <<>>
    /\ base_merged = <<>>
    /\ sec_chunks = <<>>

\* The body of chunk_article's loop for the section: normalize_text, then
\* _section_chunks unless the normalized text is empty.
SectionChunks ==
    /\ kpc = "input"
    /\ kpc' = "done"
    /\ LET n  == normalize_text(raw_text, normalize_bullets)
           s  == IF n = <<>> THEN <<>>
                 ELSE _split_by_separators(n, chunk_size, DEFAULT_SEPARATORS)
           o  == _apply_overlap(s, chunk_overlap)
           m  == _merge_small(o, chunk_min, chunk_size)
       IN
       /\ norm' = n
       /\ base_split' = s
       /\ base_overlap' = o
       /\ base_merged' = m
       /\ sec_chunks' = StripAll(m)
    /\ UNCHANGED <<raw_text, chunk_size, chunk_overlap, chunk_min>>

\* _merge_small on a chunk list of its own: the chunks are runs of letters
MergePieces == {[i \in 1..n |-> "a"] : n \in 1..MaxPieceLen}

MergeInit ==
    /\ kpc = "merge_input"
    /\ raw_text = <<>>
    /\ chunk_size \in 1..MaxMergeSize
    /\ chunk_overlap = 0
    /\ chunk_min \in 0..MaxMergeSize
    /\ chunk_min <= chunk_size
    /\ norm = <<>>
    /\ base_split = <<>>
    /\ base_overlap \in SeqsUpTo(MergePieces, MaxMergeChunks)
    /\ base_merged = <<>>
    /\ sec_chunks = <<>>

\* base_chunks = _merge_small(base_chunks, min_len, chunk_size)
MergeSmallCall ==
    /\ kpc = "merge_input"
    /\ kpc' = "merged"
    /\ base_merged' = _merge_small(base_overlap, chunk_min, chunk_size)
    /\ UNCHANGED <<raw_text, chunk_size, chunk_overlap, chunk_min, norm,
                   base_split, base_overlap, sec_chunks>>

-----------------------------------------------------------------------------
(* _section_chunks statement by statement: the calls of                    *)
(* _split_by_separators are frames on a stack, the loops move one          *)
(* iteration at a time.                                                    *)

\* a call of _split_by_separators(text, max_len, separators) at its entry
Frame(text, separators) ==
    [text |-> text, separators |-> separators, pc |-> "enter", parts |-> <<>>,
     buf |-> <<>>, chunks |-> <<>>, final |-> <<>>, item |-> 0, start |-> 0]

Top == stack[Len(stack)]
SetTop(f) == [stack EXCEPT ![Len(stack)] = f]

\* `start += max_len`, and a loop that stays where it is
WindowAdvanceStuck(start, max_len) == start + 0 * max_len
WindowAdvance(start, max_len) == start + max_len

\* `return [text]` / `return final`: the frame is left; the caller extends
\* its chunks with the result, the outermost call hands it to _section_chunks
Deliver(result) ==
    IF Len(stack) > 1
    THEN /\ stack' = [SubSeq(stack, 1, Len(stack) - 1) EXCEPT ![Len(stack) - 1] =
                         [@ EXCEPT !.chunks = @ \o result]]
         /\ UNCHANGED <<kpc, base_split>>
    ELSE /\ stack' = <<>>
         /\ base_split' = result
         /\ kpc' = "overlap"

StepInit ==
    /\ kpc = "input"
    /\ raw_text \in SeqsUpTo(Alphabet, MaxStepLen)
    /\ chunk_size \in 1..MaxSize
    /\ chunk_overlap \in 0..(MaxSize - 1)
    /\ chunk_min \in 0..MaxSize
    /\ chunk_overlap < chunk_size
    /\ chunk_min <= chunk_size
    /\ norm = <<>>
    /\ base_split = <<>>
    /\ base_overlap = <<>>
    /\ base_merged = <<>>
    /\ sec_chunks = <<>>
    /\ stack = <<>>
    /\ midx = 0

\* norm = normalize_text(raw_text); `if not norm: continue`; the call of
\* _split_by_separators(section_text, chunk_size, DEFAULT_SEPARATORS)
StepStart ==
    /\ kpc = "input"
    /\ norm' = normalize_text(raw_text, normalize_bullets)
    /\ IF norm' = <<>>
       THEN kpc' = "done" /\ stack' = <<>>
       ELSE kpc' = "split" /\ stack' = <<Frame(norm', DEFAULT_SEPARATORS)>>
    /\ UNCHANGED <<raw_text, chunk_size, chunk_overlap, chunk_min, base_split,
                   base_overlap, base_merged, sec_chunks, midx>>

\* `if len(text) <= max_len or not separators: return [text]`, else
\* `parts = text.split(sep)`
SplitEnter ==
    /\ kpc = "split"
    /\ Top.pc = "enter"
    /\ IF Len(Top.text) <= chunk_size \/ Top.separators = <<>>
       THEN Deliver(<<Top.text>>)
       ELSE /\ stack' = SetTop([Top EXCEPT
                                  !.pc = "parts",
                                  !.parts = StrSplit(Top.text, Head(Top.separators))])
            /\ UNCHANGED <<kpc, base_split>>
    /\ UNCHANGED <<raw_text, chunk_size, chunk_overlap, chunk_min, norm,
                   base_overlap, base_merged, sec_chunks, midx>>

\* one pass of `for part in parts`; the recursive call pushes a frame with
\* separators[1:]
SplitPart ==
    /\ kpc = "split"
    /\ Top.pc = "parts"
    /\ Top.parts # <<>>
    /\ LET part      == Head(Top.parts)
           sep       == Head(Top.separators)
           candidate == IF Top.buf # <<>> THEN Top.buf \o sep \o part ELSE part
           flushed   == IF Top.buf # <<>> THEN Append(Top.chunks, Top.buf)
                        ELSE Top.chunks
       IN  IF Len(candidate) <= chunk_size
           THEN stack' = SetTop([Top EXCEPT !.buf = candidate,
                                            !.parts = Tail(Top.parts)])
           ELSE IF Len(part) > chunk_size /\ Len(Top.separators) > 1
           THEN stack' = Append(SetTop([Top EXCEPT !.chunks = flushed,
                                                   !.buf = <<>>,
                                                   !.parts = Tail(Top.parts)]),
                                Frame(part, Tail(Top.separators)))
           ELSE stack' = SetTop([Top EXCEPT !.chunks = flushed,
                                            !.buf = part,
                                            !.parts = Tail(Top.parts)])
    /\ UNCHANGED <<kpc, raw_text, chunk_size, chunk_overlap, chunk_min, norm,
                   base_split, base_overlap, base_merged, sec_chunks, midx>>

\* after the loop: `if buf: chunks.append(buf)`, then `for item in chunks`
SplitFlush ==
    /\ kpc = "split"
    /\ Top.pc = "parts"
    /\ Top.parts = <<>>
    /\ stack' = SetTop([Top EXCEPT
                          !.chunks = IF Top.buf # <<>> THEN Append(@, Top.buf) ELSE @,
                          !.pc = "items",
                          !.item = 1])
    /\ UNCHANGED <<kpc, raw_text, chunk_size, chunk_overlap, chunk_min, norm,
                   base_split, base_overlap, base_merged, sec_chunks, midx>>

\* one pass of `for item in chunks` up to the window loop; `return final`
\* after the last
SplitItem ==
    /\ kpc = "split"
    /\ Top.pc = "items"
    /\ IF Top.item > Len(Top.chunks)
       THEN Deliver(Top.final)
       ELSE /\ IF Len(Top.chunks[Top.item]) <= chunk_size
               THEN stack' = SetTop([Top EXCEPT
                                       !.final = Append(@, Top.chunks[Top.item]),
                                       !.item = @ + 1])
               ELSE stack' = SetTop([Top EXCEPT !.pc = "window", !.start = 0])
            /\ UNCHANGED <<kpc, base_split>>
    /\ UNCHANGED <<raw_text, chunk_size, chunk_overlap, chunk_min, norm,
                   base_overlap, base_merged, sec_chunks, midx>>

\* one test of `while start < len(item)` and, when it holds, one pass
SplitWindow ==
    /\ kpc = "split"
    /\ Top.pc = "window"
    /\ LET item == Top.chunks[Top.item] IN
       IF Top.start < Len(item)
       THEN stack' = SetTop([Top EXCEPT
                               !.final = Append(@, SubSeq(item, Top.start + 1,
                                                  Min(Top.start + chunk_size,
                                                      Len(item)))),
                               !.start = WindowAdvance(@, chunk_size)])
       ELSE stack' = SetTop([Top EXCEPT !.pc = "items", !.item = @ + 1])
    /\ UNCHANGED <<kpc, raw_text, chunk_size, chunk_overlap, chunk_min, norm,
                   base_split, base_overlap, base_merged, sec_chunks, midx>>

\* base_chunks = _apply_overlap(base_chunks, overlap): a for loop over the
\* list; then _merge_small is entered (`if not chunks: return []`, idx = 0)
OverlapCall ==
    /\ kpc = "overlap"
    /\ base_overlap' = _apply_overlap(base_split, chunk_overlap)
    /\ base_merged' = <<>>
    /\ midx' = 0
    /\ kpc' = "merge"
    /\ UNCHANGED <<raw_text, chunk_size, chunk_overlap, chunk_min, norm,
                   base_split, sec_chunks, stack>>

\* one test of `while idx < len(chunks)` and, when it holds, one pass; after
\* the loop _merge_small returns and _section_chunks strips the chunks
MergeStep ==
    /\ kpc = "merge"
    /\ IF midx < Len(base_overlap)
       THEN LET current == base_overlap[midx + 1] IN
            /\ IF Len(current) >= chunk_min \/ midx = Len(base_overlap) - 1
               THEN /\ base_merged' = Append(base_merged, current)
                    /\ midx' = midx + 1
               ELSE IF Len(current) + Len(base_overlap[midx + 2]) <= chunk_size
               THEN /\ base_merged' =
                         Append(base_merged,
                                current \o <<NL>> \o base_overlap[midx + 2])
                    /\ midx' = midx + 2
               ELSE /\ base_merged' = Append(base_merged, current)
                    /\ midx' = midx + 1
            /\ UNCHANGED <<kpc, sec_chunks>>
       ELSE /\ sec_chunks' = StripAll(base_merged)
            /\ kpc' = "done"
            /\ UNCHANGED <<base_merged, midx>>
    /\ UNCHANGED <<raw_text, chunk_size, chunk_overlap, chunk_min, norm,
                   base_split, base_overlap, stack>>

-----------------------------------------------------------------------------
(* chunk_article on a whole article.  An Optional value is a record: some  *)
(* tells whether it is there, val is the value (empty for None).           *)

NoneValue == [some |-> FALSE, val |-> <<>>]
Some(v) == [some |-> TRUE, val |-> v]

\* `x or ""`, and the same without the default
OrEmptyMissing(x) == x
OrEmpty(x) == Some(IF x.some THEN x.val ELSE <<>>)

Section(heading, text) == [heading |-> heading, text |-> text]

ArticleParsed(url, locale, sections, plain_text, content_hash) ==
    [url |-> url, locale |-> locale, sections |-> sections,
     plain_text |-> plain_text, content_hash |-> content_hash]

\* the texts that sections and plain_text are drawn from
SectionTexts ==
    {<<>>, <<SP>>, <<"a", SP, "a">>, <<STAR, "a">>}
OptionalTexts == {NoneValue} \cup {Some(t) : t \in SectionTexts}
\* the headings of the sections
SectionHeadings == {"H", "G"}

RECURSIVE SectionResult(_, _)
\* the loop of _section_iter over enumerate(article.sections), from idx on
\* (0-based): the entries (idx, heading, text) of the sections with text
SectionResult(sections, idx) ==
    IF idx >= Len(sections) THEN <<>>
    ELSE LET sec  == sections[idx + 1]
             text == OrEmpty(sec.text)
         IN  (IF Strip(text.val) # <<>>
              THEN <<[idx |-> idx, heading |-> sec.heading, text |-> text]>>
              ELSE <<>>)
               \o SectionResult(sections, idx + 1)

\* the entries numbered by their place among the kept ones
Renumbered(result) ==
    [k \in 1..Len(result) |->
        [idx |-> k - 1, heading |-> result[k].heading, text |-> result[k].text]]

\* an iteration that renumbers the sections it keeps
_section_iter_renumbering(a) ==
    IF a.sections.some /\ SectionResult(a.sections.val, 0) # <<>>
    THEN Renumbered(SectionResult(a.sections.val, 0))
    ELSE <<[idx |-> 0, heading |-> "(no_heading)",
            text |-> OrEmpty(a.plain_text)]>>
_section_iter(a) ==
    LET result == IF a.sections.some /\ a.sections.val # <<>>
                  THEN SectionResult(a.sections.val, 0) ELSE <<>>
    IN  IF result # <<>> THEN result
        ELSE <<[idx |-> 0, heading |-> "(no_heading)",
                text |-> OrEmpty(a.plain_text)]>>

_section_chunks(section_text, size, overlap, min_len) ==
    StripAll(_merge_small(
        _apply_overlap(_split_by_separators(section_text, size, DEFAULT_SEPARATORS),
                       overlap),
        min_len, size))

\* str(n) for the indexes that occur
DecStr(n) ==
    <<"0", "1", "2", "3", "4", "5", "6", "7", "8", "9", "10", "11", "12",
      "13", "14", "15", "16", "17", "18", "19", "20">>[n + 1]

\* f"{article.locale}|{slug}|{sec_idx}|{chunk_counter}"
ChunkId(locale, slug, sec_idx, chunk_counter) ==
    <<locale, "|", slug, "|", DecStr(sec_idx), "|", DecStr(chunk_counter)>>

\* the index a chunk gets: the article-wide counter (pos is the chunk's
\* place within its section, 0-based)
ChunkIndexPerSection(chunk_counter, pos) == pos
ChunkIndex(chunk_counter, pos) == chunk_counter

\* Chunk(id=..., text=..., metadata=...) for the chunks of one section;
\* section is the index of the section the chunk came from
SectionRecords(a, entry, sec_chunks_, chunk_counter) ==
    [k \in 1..Len(sec_chunks_) |->
        LET index == ChunkIndex(chunk_counter + k - 1, k - 1)
        IN  [id |-> ChunkId(a.locale, slug_from_url(a.url), entry.idx, index),
             text |-> sec_chunks_[k],
             section |-> entry.idx,
             metadata |-> [source_url |-> a.url,
                           locale |-> a.locale,
                           section_heading |-> entry.heading,
                           chunk_index |-> index,
                           char_len |-> Len(sec_chunks_[k])]]]

RECURSIVE ChunkLoop(_, _, _, _, _, _, _, _)
\* the loop of chunk_article over section_entries, from entry k on
ChunkLoop(a, entries, k, size, overlap, min_len, do_bullets, acc) ==
    IF k > Len(entries) THEN [raised |-> FALSE, chunks |-> acc]
    ELSE IF ~entries[k].text.some
    THEN \* normalize_text(None): html.unescape raises
         [raised |-> TRUE, chunks |-> <<>>]
    ELSE LET n == normalize_text(entries[k].text.val, do_bullets)
             c == IF n = <<>> THEN <<>>
                  ELSE _section_chunks(n, size, overlap, min_len)
         IN  ChunkLoop(a, entries, k + 1, size, overlap, min_len, do_bullets,
                       acc \o SectionRecords(a, entries[k], c, Len(acc)))

chunk_article(a, size, overlap, min_len, do_bullets) ==
    ChunkLoop(a, _section_iter(a), 1, size, overlap, min_len, do_bullets, <<>>)

ArticleIdle ==
    /\ apc = "idle"
    /\ article = ArticleParsed(PageB, site_code, NoneValue, NoneValue, NoneValue)
    /\ normalize_bullets = TRUE
    /\ article_chunks = <<>>
    /\ first_chunks = <<>>
    /\ ncalls = 0

ArticleInit ==
    /\ apc = "input"
    /\ article \in
         {ArticleParsed(PageB, site_code, secs, plain, NoneValue) :
            secs \in {NoneValue} \cup
                     {Some(ss) : ss \in
                        SeqsUpTo({Section(h, t) : h \in SectionHeadings,
                                                    t \in OptionalTexts},
                                 MaxSections)},
            plain \in OptionalTexts}
    /\ normalize_bullets \in BOOLEAN
    /\ article_chunks = <<>>
    /\ first_chunks = <<>>
    /\ ncalls = 0
    /\ kpc = "input"
    /\ raw_text = <<>>
    /\ chunk_size \in 1..MaxArticleSize
    /\ chunk_overlap \in 0..(MaxArticleSize - 1)
    /\ chunk_min \in 0..MaxArticleSize
    /\ chunk_overlap < chunk_size
    /\ chunk_min <= chunk_size
    /\ norm = <<>>
    /\ base_split = <<>>
    /\ base_overlap = <<>>
    /\ base_merged = <<>>
    /\ sec_chunks = <<>>

\* chunk_article(article, chunk_size_chars=..., chunk_overlap_chars=...,
\* chunk_min_chars=...)
ChunkArticleCall ==
    /\ apc \in {"input", "returned"}
    /\ ncalls < MaxArticleCalls
    /\ LET res == chunk_article(article, chunk_size, chunk_overlap, chunk_min,
                                normalize_bullets)
       IN  /\ apc' = IF res.raised THEN "raised" ELSE "returned"
           /\ article_chunks' = res.chunks
           /\ first_chunks' = IF ncalls = 0 THEN res.chunks ELSE first_chunks
    /\ ncalls' = ncalls + 1
    /\ UNCHANGED <<article, normalize_bullets>>

\* The process's settings are loaded anew (NORMALIZE_BULLETS in the
\* environment, get_settings.cache_clear()) between two calls.
SettingsReload ==
    /\ apc = "returned"
    /\ ncalls < MaxArticleCalls
    /\ normalize_bullets' = ~normalize_bullets
    /\ UNCHANGED <<apc, article, article_chunks, first_chunks, ncalls>>

-----------------------------------------------------------------------------
(* preprocess_locale over the parsed articles of one site *)

\* hashlib.sha256(...).hexdigest(): a digest stands for the text it is of
Sha256(text) == <<"sha256">> \o text

\* ArticleParsed.source_hash
source_hash(a) ==
    IF a.content_hash.some /\ a.content_hash.val # <<>> THEN a.content_hash.val
    ELSE Sha256(OrEmpty(a.plain_text).val)

\* the parsed files of the site, by slug, in the order of sorted(glob)
StoreSlugs == <<"a", "b-1">>
StoreUrl(slug) == IF slug = "a" THEN PageA ELSE PageB

\* what a parsed file holds: nothing (no file), an article as the scraper
\* saved it, or text that json.loads rejects
NoFile == [kind |-> "none", text |-> <<>>]
Corrupt == [kind |-> "corrupt", text |-> <<>>]
Saved(text) == [kind |-> "article", text |-> text]
FileContents == {NoFile, Corrupt} \cup {Saved(t) : t \in SectionTexts \ {<<SP>>}}

\* load_article on a file the scraper saved for the page with this text
load_article(slug, file) ==
    ArticleParsed(StoreUrl(slug), site_code,
                  Some(<<Section("H", Some(file.text))>>),
                  Some(file.text), Some(Sha256(file.text)))

\* article_hashes has no entry for the slug
NoHash == <<>>

\* `not force and prev_hashes.get(slug) == src_hash`
UnchangedNever(frc, prev_hashes, slug, src_hash) == FALSE
Unchanged(frc, prev_hashes, slug, src_hash) ==
    ~frc /\ prev_hashes[slug] = src_hash

\* the dict written to chunks.jsonl for a chunk
ChunkLine(ch) ==
    [id |-> ch.id, site_code |-> site_code,
     text |-> normalize_text(ch.text, normalize_bullets),
     metadata |-> ch.metadata]

RECURSIVE PreprocessLoop(_, _, _)
\* the loop of preprocess_locale over the article files, from file k on
PreprocessLoop(k, frc, st) ==
    IF k > Len(StoreSlugs) THEN st
    ELSE
    LET slug == StoreSlugs[k]
        file == parsed_articles[slug]
    IN  IF file.kind = "none" THEN PreprocessLoop(k + 1, frc, st)
        ELSE IF file.kind = "corrupt"
        THEN PreprocessLoop(k + 1, frc, [st EXCEPT !.errors = @ + 1])
        ELSE
        LET a        == load_article(slug, file)
            src_hash == source_hash(a)
        IN  IF Unchanged(frc, index_json, slug_from_url(a.url), src_hash)
            THEN PreprocessLoop(k + 1, frc, st)
            ELSE
            LET res == chunk_article(a, chunk_size, chunk_overlap, chunk_min,
                                     normalize_bullets)
                called == [st EXCEPT !.chunked = @ \cup {slug}]
            IN  IF res.raised
                THEN PreprocessLoop(k + 1, frc, [called EXCEPT !.errors = @ + 1])
                ELSE IF res.chunks = <<>>
                THEN PreprocessLoop(k + 1, frc, called)
                ELSE PreprocessLoop(k + 1, frc,
                        [called EXCEPT
                            !.article_hashes[slug_from_url(a.url)] = src_hash,
                            !.chunk_lines = @ \o
                                [i \in 1..Len(res.chunks) |->
                                    ChunkLine(res.chunks[i])]])

StoreIdle ==
    /\ parsed_dir_exists = FALSE
    /\ parsed_articles = [slug \in {"a", "b-1"} |-> NoFile]
    /\ chunks_jsonl = <<>>
    /\ index_json = [slug \in {"a", "b-1"} |-> NoHash]
    /\ pre_runs = 0
    /\ pre_force = FALSE
    /\ pre_chunked = {}
    /\ pre_errors = 0
    /\ pre_seen = [slug \in {"a", "b-1"} |-> NoFile]
    /\ rewrites = 0

\* The chunk store is empty; the scraper has left some parsed files, or not
\* even the directory.
StoreInit ==
    /\ parsed_dir_exists \in BOOLEAN
    /\ parsed_articles \in [{"a", "b-1"} -> FileContents]
    /\ (~parsed_dir_exists => parsed_articles = [slug \in {"a", "b-1"} |-> NoFile])
    /\ chunks_jsonl = <<>>
    /\ index_json = [slug \in {"a", "b-1"} |-> NoHash]
    /\ pre_runs = 0
    /\ pre_force = FALSE
    /\ pre_chunked = {}
    /\ pre_errors = 0
    /\ pre_seen = [slug \in {"a", "b-1"} |-> NoFile]
    /\ rewrites = 0
    /\ kpc = "input"
    /\ raw_text = <<>>
    /\ chunk_size \in 1..MaxArticleSize
    /\ chunk_overlap = 0
    /\ chunk_min = 0
    /\ norm = <<>>
    /\ base_split = <<>>
    /\ base_overlap = <<>>
    /\ base_merged = <<>>
    /\ sec_chunks = <<>>

\* One call of preprocess_locale.
PreprocessRun ==
    /\ pre_runs < MaxPreRuns
    /\ pre_runs' = pre_runs + 1
    /\ pre_seen' = parsed_articles
    /\ \E frc \in BOOLEAN :
        /\ pre_force' = frc
        /\ IF ~parsed_dir_exists
           THEN \* the early return: nothing is read or written
                /\ pre_chunked' = {}
                /\ pre_errors' = 0
                /\ UNCHANGED <<chunks_jsonl, index_json>>
           ELSE LET st == PreprocessLoop(1, frc,
                             [chunk_lines |-> <<>>, errors |-> 0, chunked |-> {},
                              article_hashes |->
                                  [slug \in {"a", "b-1"} |-> NoHash]])
                IN  /\ chunks_jsonl' = chunks_jsonl \o st.chunk_lines
                    \* {**prev_hashes, **article_hashes}
                    /\ index_json' =
                          [slug \in {"a", "b-1"} |->
                              IF st.article_hashes[slug] # NoHash
                              THEN st.article_hashes[slug] ELSE index_json[slug]]
                    /\ pre_chunked' = st.chunked
                    /\ pre_errors' = st.errors
    /\ UNCHANGED <<parsed_dir_exists, parsed_articles, rewrites>>

\* Between two runs the scraper saves a page anew, or a file is damaged or
\* removed.
ParsedFileChanges ==
    /\ rewrites < MaxRewrites
    /\ rewrites' = rewrites + 1
    /\ \E slug \in {"a", "b-1"}, file \in FileContents :
        /\ file # parsed_articles[slug]
        /\ parsed_articles' = [parsed_articles EXCEPT ![slug] = file]
    /\ parsed_dir_exists' = TRUE
    /\ UNCHANGED <<chunks_jsonl, index_json, pre_runs, pre_force, pre_chunked,
                   pre_errors, pre_seen>>

-----------------------------------------------------------------------------
(* Specifications *)

-----------------------------------------------------------------------------
(* main of scripts/scrape_helpcenter.py.  A scrape_locale call is taken by *)
(* what it returns; a url is a page of the site it was crawled for.        *)

\* settings.help_sites has a base url for "ru" and "ua", none for "xx"
HelpSites == {"ru", "ua"}
SiteCodes == HelpSites \cup {"xx"}
IndexPage == "index"
SitePages == {"p1", "p2"}

ZeroTotal == [downloaded |-> 0, skipped |-> 0, errors |-> 0, assets |-> 0]
NoRetries == [attempted |-> 0, succeeded |-> 0]
NoReport == [written |-> FALSE, total |-> ZeroTotal, failed_urls |-> <<>>,
             retries_with_auth_state |-> NoRetries]
NoExit == -1

\* the lists of failed pages a scrape_locale call may return
FailedPageLists ==
    {f \in SeqsUpTo(SitePages, MaxSiteFailed) :
        \A i, j \in 1..Len(f) : i # j => f[i] # f[j]}

\* What scrape_locale may return: the stats of an index failure, or
\* counters with errors = len(failed_urls).
LocaleStats ==
    {[downloaded |-> 0, skipped |-> 0, errors |-> 1, assets |-> 0,
      failed_urls |-> <<[url |-> IndexPage, error |-> "index",
                         http_status |-> None]>>]}
    \cup
    {[downloaded |-> d, skipped |-> k, errors |-> Len(f), assets |-> 0,
      failed_urls |-> [i \in 1..Len(f) |->
                         [url |-> f[i], error |-> "fetch", http_status |-> 404]]] :
        d \in 0..1, k \in 0..1, f \in FailedPageLists}

\* site_failed = [{"site_code": site_code, **item} for item in failed_urls]
SiteFailed(code, stats) ==
    [i \in 1..Len(stats.failed_urls) |->
        [site_code |-> code, url |-> stats.failed_urls[i].url,
         error |-> stats.failed_urls[i].error,
         http_status |-> stats.failed_urls[i].http_status,
         tried_auth_state |-> FALSE, final_status |-> ""]]

\* What playwright_fetch and the extraction after it end in: "ok" (html
\* with an h1, extracted and saved), "blocked" (html without an h1),
\* "fetch_err" (no html, err set), "persist_err" (extract_article or
\* save_artifacts raised).
AuthOutcomes == {"ok", "blocked", "fetch_err", "persist_err"}
AuthStatus(out) ==
    IF out = "fetch_err" THEN None ELSE IF out = "blocked" THEN 403 ELSE 200
AuthErr(out) ==
    IF out = "fetch_err" THEN "playwright"
    ELSE IF out = "persist_err" THEN "persist" ELSE ""

\* lines 146-149
Annotate(item, out) ==
    [item EXCEPT !.tried_auth_state = TRUE,
                 !.final_status = "failed_with_auth_state",
                 !.http_status = AuthStatus(out),
                 !.error = IF AuthErr(out) # "" THEN AuthErr(out) ELSE item.error]

\* `for item in site_failed`: the items that stay, and the count of the
\* pages saved
RetryRemaining(items, outs) ==
    LET idx == SelectSeq([i \in 1..Len(items) |-> i], LAMBDA i : outs[i] # "ok")
    IN  [k \in 1..Len(idx) |-> Annotate(items[idx[k]], outs[idx[k]])]
RetrySucceeded(items, outs) ==
    Cardinality({i \in 1..Len(items) : outs[i] = "ok"})

\* `failed = [f for f in failed if f["site_code"] != site_code] + remaining`
ReplaceFailed(all_failed, code, remaining) ==
    SelectSeq(all_failed, LAMBDA f : f.site_code # code) \o remaining

RunnerIdle ==
    /\ rpc = "idle"
    /\ sites = <<>>
    /\ site_pos = 1
    /\ auth_state_dir = FALSE
    /\ auth_states = {}
    /\ total = ZeroTotal
    /\ failed = <<>>
    /\ retries = NoRetries
    /\ site_stats = <<>>
    /\ last_retry = <<>>
    /\ auth_saved = {}
    /\ report = NoReport
    /\ exit_code = NoExit

\* main up to its loop: the arguments and the empty totals
RunnerInit ==
    /\ rpc = "sites"
    /\ sites \in SeqsUpTo(SiteCodes, MaxSites)
    /\ site_pos = 1
    /\ auth_state_dir \in BOOLEAN
    /\ auth_states \in SUBSET HelpSites
    /\ total = ZeroTotal
    /\ failed = <<>>
    /\ retries = NoRetries
    /\ site_stats = <<>>
    /\ last_retry = <<>>
    /\ auth_saved = {}
    /\ report = NoReport
    /\ exit_code = NoExit

\* One iteration of `for site_code in sites`.
SiteStep ==
    /\ rpc = "sites"
    /\ site_pos <= Len(sites)
    /\ site_pos' = site_pos + 1
    /\ LET code == sites[site_pos] IN
       IF code \notin HelpSites
       THEN \* no base url: continue
            /\ last_retry' = <<>>
            /\ UNCHANGED <<total, failed, retries, site_stats, auth_saved>>
       ELSE
       \E stats \in LocaleStats :
         LET site_failed == SiteFailed(code, stats)
             retry == auth_state_dir /\ site_failed # <<>> /\ code \in auth_states
         IN
         \E outs \in (IF retry THEN [1..Len(site_failed) -> AuthOutcomes]
                       ELSE {<<>>}) :
           /\ site_stats' = Append(site_stats,
                                   [site_code |-> code, downloaded |-> stats.downloaded,
                                    skipped |-> stats.skipped, errors |-> stats.errors,
                                    assets |-> stats.assets])
           /\ IF retry
              THEN /\ total' = [downloaded |-> total.downloaded + stats.downloaded
                                                + RetrySucceeded(site_failed, outs),
                                skipped    |-> total.skipped + stats.skipped,
                                errors     |-> total.errors + stats.errors,
                                assets     |-> total.assets + stats.assets]
                   /\ retries' = [attempted |-> retries.attempted + Len(site_failed),
                                  succeeded |-> retries.succeeded
                                                + RetrySucceeded(site_failed, outs)]
                   /\ failed' = ReplaceFailed(failed \o site_failed, code,
                                              RetryRemaining(site_failed, outs))
                   /\ last_retry' = [i \in 1..Len(site_failed) |->
                                       [site_code |-> code, url |-> site_failed[i].url,
                                        outcome |-> outs[i]]]
                   /\ auth_saved' = auth_saved \cup
                        {[site_code |-> code, url |-> site_failed[i].url] :
                            i \in {j \in 1..Len(site_failed) : outs[j] = "ok"}}
              ELSE /\ total' = [downloaded |-> total.downloaded + stats.downloaded,
                                skipped    |-> total.skipped + stats.skipped,
                                errors     |-> total.errors + stats.errors,
                                assets     |-> total.assets + stats.assets]
                   /\ failed' = failed \o site_failed
                   /\ last_retry' = <<>>
                   /\ UNCHANGED <<retries, auth_saved>>
    /\ UNCHANGED <<rpc, sites, auth_state_dir, auth_states, report, exit_code>>

\* After the loop: the report is written and main returns 0.
WriteReport ==
    /\ rpc = "sites"
    /\ site_pos > Len(sites)
    /\ rpc' = "done"
    /\ report' = [written |-> TRUE, total |-> total, failed_urls |-> failed,
                  retries_with_auth_state |-> retries]
    /\ exit_code' = 0
    /\ UNCHANGED <<sites, site_pos, auth_state_dir, auth_states, total, failed,
                   retries, site_stats, last_retry, auth_saved>>

RunnerNext ==
    \/ SiteStep /\ UNCHANGED <<fetchVars, siteVars, crawlVars, chunkVars,
                   articleVars, urlVars, storeVars, twinVars, stepVars>>
    \/ WriteReport /\ UNCHANGED <<fetchVars, siteVars, crawlVars, chunkVars,
                   articleVars, urlVars, storeVars, twinVars, stepVars>>

TwinIdle ==
    /\ restored = FALSE
    /\ prev_events = <<>>

StepIdle ==
    /\ stack = <<>>
    /\ midx = 0

AuxIdle == TwinIdle /\ RunnerIdle /\ StepIdle

FetchNext ==
    \/ PoliteGetStart
         /\ UNCHANGED <<siteVars, crawlVars, chunkVars, articleVars, urlVars,
                      storeVars, auxVars>>
    \/ PoliteGetAttempt
         /\ UNCHANGED <<siteVars, crawlVars, chunkVars, articleVars, urlVars,
                      storeVars, auxVars>>

InitFetch ==
    /\ FetchInit /\ CrawlIdle /\ SiteIdle /\ ChunkIdle /\ ArticleIdle /\ UrlIdle
    /\ StoreIdle /\ AuxIdle

SpecFetch == InitFetch /\ [][FetchNext]_vars

Next ==
    \/ ScrapeStart /\ UNCHANGED <<fetchVars, chunkVars, articleVars, urlVars,
                      storeVars, auxVars>>
    \/ LoopStep /\ UNCHANGED <<fetchVars, chunkVars, articleVars, urlVars,
                      storeVars, auxVars>>
    \/ ScrapeReturn /\ UNCHANGED <<fetchVars, chunkVars, articleVars, urlVars,
                      storeVars, auxVars>>

FetchIdle == FetchInit /\ rate_limit_seconds = 0

Init ==
    /\ CrawlInit /\ FetchIdle /\ ChunkIdle /\ ArticleIdle /\ UrlIdle /\ StoreIdle
    /\ AuxIdle

Spec == Init /\ [][Next]_vars

\* Two runs from the same output directory.  The directory holds what some
\* earlier run left; after the first run somebody puts it back as that run
\* found it, and scrape_locale is called again.
TwinDisks == {{}, WriteParsed({}, PageA), WriteParsed({}, PageB),
              WriteParsed(WriteParsed({}, PageA), PageB)}

TwinInit ==
    /\ CrawlIdle
    /\ override_given = FALSE
    /\ urls_override = <<>>
    /\ site_index \in SeqsUpTo([url : Pages, category : Categories], MaxIndexLinks)
    /\ site_links = [p \in Pages |-> [known |-> FALSE, links |-> <<>>]]
    /\ parsed_files \in TwinDisks
    /\ site_images = NoImages
    /\ asset_files = {}
    /\ TwinIdle

RestoreDisk ==
    /\ cpc = "returned"
    /\ runs = 1
    /\ ~restored
    /\ restored' = TRUE
    /\ prev_events' = events
    /\ parsed_files' = start_files
    /\ UNCHANGED <<site_index, site_links, site_images, asset_files, crawlVars>>

\* the first call, and the call after the restore with the same parameters
TwinStart ==
    /\ ScrapeStart
    /\ runs = 0 \/ (restored /\ force' = force /\ max_pages' = max_pages)

TwinNext ==
    \/ TwinStart /\ UNCHANGED <<fetchVars, chunkVars, articleVars, urlVars,
                      storeVars, auxVars>>
    \/ LoopStep /\ UNCHANGED <<fetchVars, chunkVars, articleVars, urlVars,
                      storeVars, auxVars>>
    \/ ScrapeReturn /\ UNCHANGED <<fetchVars, chunkVars, articleVars, urlVars,
                      storeVars, auxVars>>
    \/ RestoreDisk /\ UNCHANGED <<fetchVars, chunkVars, articleVars, urlVars,
                      storeVars, runnerVars, stepVars>>

InitTwin ==
    /\ TwinInit /\ FetchIdle /\ ChunkIdle /\ ArticleIdle /\ UrlIdle /\ StoreIdle
    /\ RunnerIdle /\ StepIdle

SpecTwin == InitTwin /\ [][TwinNext]_vars

\* scrape_locale runs on one thread and every call it makes returns or
\* raises (requests are made with a timeout, polite_get retries a bounded
\* number of times), so an iteration of `while queue` that can be taken is
\* taken, and so is the return after the loop.
LiveLoopStep ==
    LoopStep /\ UNCHANGED <<fetchVars, chunkVars, articleVars, urlVars,
                      storeVars, auxVars>>
LiveScrapeReturn ==
    ScrapeReturn /\ UNCHANGED <<fetchVars, chunkVars, articleVars, urlVars,
                      storeVars, auxVars>>

LiveStart ==
    /\ runs = 0
    /\ ScrapeStart
    /\ UNCHANGED <<fetchVars, chunkVars, articleVars, urlVars, storeVars, auxVars>>

LiveNext == LiveStart \/ LiveLoopStep \/ LiveScrapeReturn

\* one run, over an output directory that holds what earlier runs left
SpecLive ==
    InitTwin /\ [][LiveNext]_vars /\ WF_vars(LiveLoopStep) /\ WF_vars(LiveScrapeReturn)

\* One run over an empty output directory, with or without the assets flag,
\* on a site where one page shows images.
AssetInit ==
    /\ cpc = "idle"
    /\ runs = 0
    /\ force = FALSE
    /\ max_pages = 0
    /\ visited = {}
    /\ queue = <<>>
    /\ downloaded = 0
    /\ skipped = 0
    /\ errors = 0
    /\ failed_urls = <<>>
    /\ events = <<>>
    /\ start_files = {}
    /\ prev = NoPrev
    /\ download_assets_flag \in BOOLEAN
    /\ assets = 0
    /\ img_log = <<>>
    /\ override_given = FALSE
    /\ urls_override = <<>>
    /\ site_index \in SeqsUpTo([url : Pages, category : Categories], MaxIndexLinks)
    /\ site_links = [p \in Pages |-> [known |-> FALSE, links |-> <<>>]]
    /\ parsed_files = {}
    /\ \E images \in SeqsUpTo(ImageSrcs, MaxImages) :
          site_images = [p \in Pages |-> IF p = PageA THEN images ELSE <<>>]
    /\ asset_files = {}

InitAssets ==
    /\ AssetInit /\ FetchIdle /\ ChunkIdle /\ ArticleIdle /\ UrlIdle /\ StoreIdle
    /\ AuxIdle

SpecAssets == InitAssets /\ [][LiveNext]_vars

InitRunner ==
    /\ RunnerInit /\ FetchIdle /\ CrawlIdle /\ SiteIdle /\ ChunkIdle /\ ArticleIdle
    /\ UrlIdle /\ StoreIdle /\ TwinIdle /\ StepIdle

SpecRunner == InitRunner /\ [][RunnerNext]_vars

ChunkNext ==
    SectionChunks
      /\ UNCHANGED <<fetchVars, siteVars, crawlVars, articleVars, urlVars,
                      storeVars, auxVars>>

InitChunk ==
    /\ ChunkInit /\ FetchIdle /\ CrawlIdle /\ SiteIdle /\ ArticleIdle /\ UrlIdle
    /\ StoreIdle /\ AuxIdle

SpecChunk == InitChunk /\ [][ChunkNext]_vars

MergeNext ==
    MergeSmallCall
      /\ UNCHANGED <<fetchVars, siteVars, crawlVars, articleVars, urlVars,
                      storeVars, auxVars>>

InitMerge ==
    /\ MergeInit /\ FetchIdle /\ CrawlIdle /\ SiteIdle /\ ArticleIdle /\ UrlIdle
    /\ StoreIdle /\ AuxIdle

SpecMerge == InitMerge /\ [][MergeNext]_vars

\* the statements of _section_chunks after its entry
StepRun ==
    \/ SplitEnter /\ UNCHANGED <<fetchVars, siteVars, crawlVars, articleVars, urlVars,
                      storeVars, twinVars, runnerVars>>
    \/ SplitPart /\ UNCHANGED <<fetchVars, siteVars, crawlVars, articleVars, urlVars,
                      storeVars, twinVars, runnerVars>>
    \/ SplitFlush /\ UNCHANGED <<fetchVars, siteVars, crawlVars, articleVars, urlVars,
                      storeVars, twinVars, runnerVars>>
    \/ SplitItem /\ UNCHANGED <<fetchVars, siteVars, crawlVars, articleVars, urlVars,
                      storeVars, twinVars, runnerVars>>
    \/ SplitWindow /\ UNCHANGED <<fetchVars, siteVars, crawlVars, articleVars, urlVars,
                      storeVars, twinVars, runnerVars>>
    \/ OverlapCall /\ UNCHANGED <<fetchVars, siteVars, crawlVars, articleVars, urlVars,
                      storeVars, twinVars, runnerVars>>
    \/ MergeStep /\ UNCHANGED <<fetchVars, siteVars, crawlVars, articleVars, urlVars,
                      storeVars, twinVars, runnerVars>>

StepNext ==
    \/ StepStart /\ UNCHANGED <<fetchVars, siteVars, crawlVars, articleVars, urlVars,
                      storeVars, twinVars, runnerVars>>
    \/ StepRun

\* the run leaves its entry: what StepStart does to kpc
StepEntered == kpc = "input" /\ kpc' \in {"split", "done"}

InitSteps ==
    /\ StepInit /\ FetchIdle /\ CrawlIdle /\ SiteIdle /\ ArticleIdle /\ UrlIdle
    /\ StoreIdle /\ TwinIdle /\ RunnerIdle

\* The chunker runs on one thread and makes no call that waits: the
\* statement it is at is executed.
SpecSteps ==
    InitSteps /\ [][StepNext]_vars /\ WF_kpc(StepEntered) /\ WF_vars(StepRun)

ArticleNext ==
    \/ ChunkArticleCall
         /\ UNCHANGED <<fetchVars, siteVars, crawlVars, chunkVars, urlVars,
                      storeVars, auxVars>>
    \/ SettingsReload
         /\ UNCHANGED <<fetchVars, siteVars, crawlVars, chunkVars, urlVars,
                      storeVars, auxVars>>

InitArticle ==
    /\ ArticleInit /\ FetchIdle /\ CrawlIdle /\ SiteIdle /\ UrlIdle /\ StoreIdle
    /\ AuxIdle

SpecArticle == InitArticle /\ [][ArticleNext]_vars

UrlNext ==
    Canonicalize
      /\ UNCHANGED <<fetchVars, siteVars, crawlVars, chunkVars, articleVars,
                      storeVars, auxVars>>

InitUrl ==
    /\ UrlInit /\ FetchIdle /\ CrawlIdle /\ SiteIdle /\ ChunkIdle /\ ArticleIdle
    /\ StoreIdle /\ AuxIdle

SpecUrl == InitUrl /\ [][UrlNext]_vars

StoreNext ==
    \/ PreprocessRun
         /\ UNCHANGED <<fetchVars, siteVars, crawlVars, chunkVars, articleVars,
                        urlVars, auxVars>>
    \/ ParsedFileChanges
         /\ UNCHANGED <<fetchVars, siteVars, crawlVars, chunkVars, articleVars,
                        urlVars, auxVars>>

InitStore ==
    /\ StoreInit /\ FetchIdle /\ CrawlIdle /\ SiteIdle /\ ArticleIdle /\ UrlIdle
    /\ AuxIdle

SpecStore == InitStore /\ [][StoreNext]_vars

-----------------------------------------------------------------------------
(* Claims about polite_get, checked under SpecFetch *)

ClaimRetryStatuses == {429, 500, 502, 503, 504}
ClaimBackoff == <<1, 2>>
Is2xx(status) == 200 <= status /\ status <= 299
IsRetryTrigger(outcome) == outcome = NetworkFailure \/ outcome \in ClaimRetryStatuses
\* the call went on to another attempt after its i-th request
Retried(i) == i < Len(outcomes) \/ (i = Len(outcomes) /\ fpc = "loop")

\* C5: a polite_get call issues at most 3 requests; after request 1 or 2 it
\* retries exactly when the request ended in a network failure or a status in
\* {429,500,502,503,504}, sleeping 0.5s after the first and 1.0s after the
\* second; a 2xx response to request k is returned after exactly k requests;
\* 503, 503, 200 succeeds with backoff sleeps 0.5s, 1.0s.
C5_RetryPolicy ==
    /\ nreq <= 3
    /\ nreq = Len(outcomes)
    /\ \A i \in 1..Len(outcomes) :
        /\ Retried(i) <=> (i <= 2 /\ IsRetryTrigger(outcomes[i]))
        /\ Retried(i) => (i <= Len(sleeps) /\ sleeps[i] = ClaimBackoff[i])
        /\ Is2xx(outcomes[i]) =>
              (Len(outcomes) = i /\ fpc = "returned" /\ retStatus = outcomes[i])
    /\ Len(sleeps) = Cardinality({i \in 1..Len(outcomes) : Retried(i)})
    /\ outcomes = <<503, 503, 200>> => (fpc = "returned" /\ sleeps = <<1, 2>>)

C5_Witness ==
    outcomes = <<503, 503, 200>> /\ fpc = "returned" /\ retStatus = 200 /\ nreq = 3

\* C6: when the third request of a call ends in a network failure or a status
\* in {429,500,502,503,504}, the call raises, with no third backoff sleep and
\* no fourth request; a response with such a status is never returned.
C6_FinalAttemptRaises ==
    /\ nreq <= 3
    /\ (Len(outcomes) >= 3 /\ IsRetryTrigger(outcomes[3])) =>
          (fpc = "raised" /\ Len(outcomes) = 3 /\ nreq = 3 /\ Len(sleeps) = 2)
    /\ fpc = "returned" => retStatus \notin ClaimRetryStatuses

C6_Witness ==
    fpc = "raised" /\ Len(outcomes) = 3 /\ outcomes[3] = 503 /\ outcomes[2] = NetworkFailure

\* C7 as stated: a response whose status is neither 2xx nor in
\* {429,500,502,503,504} (1xx and 3xx included) ends the call by raising at
\* once: no retry, no backoff sleep, never returned.
C7_AnyNon2xxRaises ==
    \A i \in 1..Len(outcomes) :
        (outcomes[i] # NetworkFailure /\ ~Is2xx(outcomes[i])
            /\ outcomes[i] \notin ClaimRetryStatuses) =>
        (Len(outcomes) = i /\ fpc = "raised" /\ Len(sleeps) = i - 1)

\* C7 amended: a 4xx/5xx response whose status is not in {429,500,502,503,504}
\* ends the call by raising at once (no retry, no backoff sleep, never
\* returned); a 1xx or 3xx response does not raise: the call returns it.
C7_ErrorStatusRaises ==
    \A i \in 1..Len(outcomes) :
        LET s == outcomes[i] IN
        /\ (400 <= s /\ s <= 599 /\ s \notin ClaimRetryStatuses) =>
              (Len(outcomes) = i /\ fpc = "raised" /\ Len(sleeps) = i - 1)
        /\ (s # NetworkFailure /\ s < 400 /\ ~Is2xx(s)) =>
              (Len(outcomes) = i /\ fpc = "returned" /\ retStatus = s
                 /\ Len(sleeps) = i - 1)

C7_Witness ==
    fpc = "raised" /\ Len(outcomes) = 2 /\ outcomes[2] = 404 /\ sleeps = <<1>>

\* C8 as stated: of any two consecutive requests issued through one
\* FetchContext, the later is issued at least rate_limit_seconds after the
\* earlier (also when the earlier ended in a network failure).
C8_RateLimitRespected ==
    prevIssued # -1 => lastIssued - prevIssued >= rate_limit_seconds

-----------------------------------------------------------------------------
(* Claims about scrape_locale, checked under Spec *)

IsFetch(e) == e.what \in FetchEvents
IsPageFetch(e) == e.what \in PageFetchEvents
LastEvent(evs) == evs[Len(evs)]
\* this run follows a run that returned errors = 0 and had no page budget,
\* and runs with force = false on the same output directory
RerunAfterCleanRun ==
    prev.valid /\ prev.errors = 0 /\ prev.max_pages = 0 /\ ~force

\* C2 as stated: within one run no canonical URL is requested twice, the seed
\* fetch of the base URL counted with the page fetches.
C2_NoUrlFetchedTwice ==
    \A i, j \in 1..Len(events) :
        (i < j /\ IsFetch(events[i]) /\ IsFetch(events[j])) =>
            events[i].url # events[j].url

\* C3: a run with force = false that follows a run which returned errors = 0
\* and had no page budget fetches no article page and has downloaded = 0.
C3_RerunDownloadsNothing ==
    RerunAfterCleanRun =>
        (downloaded = 0 /\ \A i \in 1..Len(events) : ~IsPageFetch(events[i]))

C3_Witness ==
    /\ RerunAfterCleanRun
    /\ cpc = "returned"
    /\ prev.downloaded >= 2
    /\ skipped >= 2

\* C4 as stated: after a run from an empty output directory that returned
\* errors = 0 and had no page budget, a second run with force = false returns
\* skipped = N, the number of pages the first run downloaded.
C4_RerunSkipsAll ==
    (RerunAfterCleanRun /\ prev.empty_start /\ cpc = "returned" /\ errors = 0) =>
        skipped = prev.downloaded

\* C9: a step in which fetching, extracting or persisting the popped URL
\* fails adds one to errors, appends one failure record, for that URL, leaves
\* downloaded and skipped as they were, drops no other frontier entry and
\* leaves the run in its loop.
C9_FailureIsolated ==
    [][(Len(events') = Len(events) + 1 /\ LastEvent(events').what \in PageFailures) =>
          /\ errors' = errors + 1
          /\ Len(failed_urls') = Len(failed_urls) + 1
          /\ SubSeq(failed_urls', 1, Len(failed_urls)) = failed_urls
          /\ LastEvent(failed_urls').url = canonicalize_url(Head(queue).url)
          /\ LastEvent(failed_urls').url = LastEvent(events').url
          /\ downloaded' = downloaded
          /\ skipped' = skipped
          /\ queue' = Tail(queue)
          /\ cpc' = "loop"]_vars

\* after a failed page the run went on and downloaded another page
C9_Witness ==
    \E i \in 1..Len(events) :
        /\ i < Len(events)
        /\ events[i].what \in PageFailures
        /\ events[i + 1].what = "ok"
        /\ errors = 1
        /\ downloaded >= 1

\* C10: when the index fetch fails the run returns downloaded = 0,
\* skipped = 0, errors = 1 and one failure record, for the base URL; it
\* fetches no page and writes no artifact.
C10_IndexFailure ==
    (events # <<>> /\ events[1].what = "index_err") =>
        /\ ~override_given
        /\ cpc = "returned"
        /\ events = <<Event(base_url, "index_err")>>
        /\ downloaded = 0 /\ skipped = 0 /\ errors = 1
        /\ Len(failed_urls) = 1
        /\ failed_urls[1].url = base_url
        /\ parsed_files = start_files
        /\ visited = {} /\ queue = <<>>

\* the second run fails on the index with artifacts of the first run on disk
C10_Witness ==
    /\ events = <<Event(base_url, "index_err")>>
    /\ cpc = "returned"
    /\ runs = 2
    /\ parsed_files # {}
    /\ errors = 1

\* C11: with max_pages > 0, downloaded never exceeds max_pages; from a state
\* in which downloaded has reached max_pages no step fetches a page, and the
\* step that meets the budget ends the run without adding to skipped or to
\* errors, whatever is left on the frontier; with max_pages = 0 no step ever
\* stops the run for the budget.
C11_BudgetRespected ==
    /\ [](max_pages > 0 => downloaded <= max_pages)
    /\ [](max_pages = 0 => \A i \in 1..Len(events) : events[i].what # "break")
    /\ [][(cpc = "loop" /\ max_pages > 0 /\ downloaded >= max_pages) =>
            /\ downloaded' = downloaded
            /\ skipped' = skipped
            /\ errors' = errors
            /\ failed_urls' = failed_urls
            /\ parsed_files' = parsed_files
            /\ (Len(events') > Len(events) => ~IsPageFetch(LastEvent(events')))
            /\ (Len(events') > Len(events) => LastEvent(events').what \in {"dup", "break"})
            /\ (cpc' = "returned" /\ queue # <<>> =>
                    LastEvent(events').what = "break")]_vars

\* the budget stopped a run that had downloaded max_pages pages, with
\* entries left on the frontier, one of them with an artifact on disk
C11_Witness ==
    /\ cpc = "returned"
    /\ max_pages = 1 /\ downloaded = 1
    /\ events # <<>> /\ LastEvent(events).what = "break"
    /\ queue # <<>>
    /\ ParsedExists(slug_from_url(canonicalize_url(Head(queue).url)))
    /\ skipped = 0 /\ errors = 0

\* C12: a step that pops a URL not yet visited, within budget, whose parsed
\* artifact exists, with force = false, adds one to skipped, requests nothing
\* and rewrites no artifact; with force = true such a step fetches the page,
\* and skipped is 0 throughout the run.
C12_SkipOrForce ==
    /\ [](force => skipped = 0)
    /\ [][(/\ cpc = "loop" /\ queue # <<>>
            /\ canonicalize_url(Head(queue).url) \notin visited
            /\ ~(max_pages > 0 /\ downloaded >= max_pages)
            /\ ParsedExists(slug_from_url(canonicalize_url(Head(queue).url)))
            /\ Len(events') > Len(events)) =>
           IF force
           THEN IsPageFetch(LastEvent(events')) /\ skipped' = 0
           ELSE /\ skipped' = skipped + 1
                /\ LastEvent(events') =
                       Event(canonicalize_url(Head(queue).url), "skip")
                /\ parsed_files' = parsed_files
                /\ downloaded' = downloaded
                /\ errors' = errors]_vars

\* a run without force skipped a page it had on disk and downloaded another
C12_Witness ==
    /\ ~force
    /\ skipped = 1
    /\ downloaded = 1
    /\ \E i \in 1..Len(events) : events[i].what = "skip"
    /\ \E i \in 1..Len(events) : events[i].what = "ok"

-----------------------------------------------------------------------------
(* Claims about the chunker, checked under SpecChunk *)

\* C1 as stated: with 1 <= size, min <= size and 0 <= overlap < size every
\* chunk the section yields has length <= size, but for at most one chunk
\* (a hard-windowed tail).
C1_ChunksWithinSize ==
    (kpc = "done" /\ chunk_size >= 1 /\ chunk_min <= chunk_size
        /\ chunk_overlap >= 0 /\ chunk_overlap < chunk_size) =>
    Cardinality({i \in 1..Len(sec_chunks) : Len(sec_chunks[i]) > chunk_size}) <= 1

\* C13 as stated: with overlap > 0, of any two chunks the section yields one
\* after the other, the last min(overlap, len) characters of the earlier are
\* a prefix of the later (on the texts as emitted, after the merge-small pass
\* and the trimming).
C13_OverlapIsPrefix ==
    (kpc = "done" /\ chunk_overlap > 0) =>
        \A i \in 1..(Len(sec_chunks) - 1) :
            LET cur == sec_chunks[i]
                nxt == sec_chunks[i + 1]
                k   == Min(chunk_overlap, Len(cur))
            IN  /\ Len(nxt) >= k
                /\ SubSeq(nxt, 1, k) = SubSeq(cur, Len(cur) - k + 1, Len(cur))

-----------------------------------------------------------------------------
(* Claims about _merge_small, checked under SpecMerge *)

\* C14 as stated: in what the merge-small pass returns, every chunk but the
\* last that is shorter than min is one that could not be merged with the
\* chunk after it in the output without exceeding size (the joining newline
\* counted), whatever the input list, three short chunks in a row included.
C14_NoShortChunkLeft ==
    kpc = "merged" =>
        \A i \in 1..(Len(base_merged) - 1) :
            Len(base_merged[i]) < chunk_min =>
                Len(base_merged[i]) + 1 + Len(base_merged[i + 1]) > chunk_size

-----------------------------------------------------------------------------
(* Claims about chunk_article, checked under SpecArticle *)

\* the article has no sections (None or empty) and no plain text (None or
\* empty)
EmptyArticle ==
    /\ (~article.sections.some \/ article.sections.val = <<>>)
    /\ (~article.plain_text.some \/ article.plain_text.val = <<>>)

\* C15: in what chunk_article returns the chunk ids are pairwise distinct,
\* the chunk_index values are 0, 1, ..., n-1 in emission order (one counter
\* across the sections), and each id is locale|slug|sectionIndex|chunkIndex
\* with the chunk's own section index and chunk index.
C15_ChunkIds ==
    apc = "returned" =>
        /\ \A i, j \in 1..Len(article_chunks) :
              i # j => article_chunks[i].id # article_chunks[j].id
        /\ \A i \in 1..Len(article_chunks) :
              /\ article_chunks[i].metadata.chunk_index = i - 1
              /\ article_chunks[i].id =
                    <<article.locale, "|", slug_from_url(article.url), "|",
                      DecStr(article_chunks[i].section), "|", DecStr(i - 1)>>

\* chunks of the first and of the third section, the second yielding none
C15_Witness ==
    /\ apc = "returned"
    /\ Len(article_chunks) >= 3
    /\ article_chunks[2].section = 0
    /\ article_chunks[Len(article_chunks)].section = 2
    /\ \A i \in 1..Len(article_chunks) : article_chunks[i].section # 1

\* C17 as stated: two chunk_article calls with the same article and the same
\* three sizes return the same chunk list, whatever the process's settings
\* are at either call.
C17_SameResultEveryCall ==
    (ncalls = 2 /\ apc = "returned") => article_chunks = first_chunks

\* C18: chunk_article on an article with neither sections nor plain text
\* returns the empty chunk list and does not raise.
C18_EmptyArticleNoChunks ==
    (ncalls >= 1 /\ EmptyArticle) => (apc = "returned" /\ article_chunks = <<>>)

C18_Witness ==
    /\ ncalls >= 1
    /\ apc = "returned"
    /\ ~article.sections.some
    /\ ~article.plain_text.some
    /\ article_chunks = <<>>

-----------------------------------------------------------------------------
(* Claims about canonicalize_url, checked under SpecUrl *)

\* the path of a URL string, and a path without the slashes that end it
ClaimPath(u) == SubSeq(u, 1, FirstIndex(u, {"?", "#"}) - 1)
ClaimStem(path) ==
    SubSeq(path, 1,
           CHOOSE k \in 0..Len(path) :
               /\ (k = 0 \/ path[k] # "/")
               /\ \A j \in (k + 1)..Len(path) : path[j] = "/")
DifferOnlyInQueryFragmentSlashes(u, v) ==
    ClaimStem(ClaimPath(u)) = ClaimStem(ClaimPath(v))

\* C16: canonicalize_url returns a URL without query and fragment whose path
\* ends in exactly one "/"; two URLs that differ only in query, fragment or
\* number of trailing slashes get the same result; applying it to its own
\* result changes nothing.
C16_Canonicalize ==
    upc = "done" =>
        /\ \A i \in 1..Len(url_out) : url_out[i] \notin {"?", "#"}
        /\ url_out # <<>>
        /\ url_out[Len(url_out)] = "/"
        /\ (Len(url_out) > 1 => url_out[Len(url_out) - 1] # "/")
        /\ (DifferOnlyInQueryFragmentSlashes(url_in, url_other) =>
                url_out = url_other_out)
        /\ url_again = url_out

\* /a?a and /a/ (or /a//, /a#a ...) were mapped to the same key
C16_Witness ==
    /\ upc = "done"
    /\ url_in # url_other
    /\ \E i \in 1..Len(url_in) : url_in[i] = "?"
    /\ DifferOnlyInQueryFragmentSlashes(url_in, url_other)
    /\ url_out = <<"/", "a", "/">>
    /\ url_other_out = url_out
    /\ url_again = url_out

-----------------------------------------------------------------------------
(* Claims about preprocess_locale, checked under SpecStore *)

\* C19 as stated: whatever preprocess_locale runs were made, no chunk id
\* occurs in two records of chunks.jsonl (the chunks of an article's latest
\* chunking replace its older ones), also after a content hash changed or a
\* run with force.
C19_NoChunkIdTwice ==
    \A i, j \in 1..Len(chunks_jsonl) :
        i # j => chunks_jsonl[i].id # chunks_jsonl[j].id

\* the digest index.json would hold for the file as it is now
ClaimCurrentHash(slug) == <<"sha256">> \o parsed_articles[slug].text

\* C20: a preprocess_locale run with force off does not chunk again any
\* article whose slug maps to its current content hash in index.json; when
\* it follows a run over the same, unchanged parsed articles it appends no
\* record to chunks.jsonl and leaves the slug-to-hash mapping of index.json
\* as it was.
C20_RerunIsIdempotent ==
    [][(pre_runs' = pre_runs + 1 /\ ~pre_force') =>
          /\ \A slug \in {"a", "b-1"} :
                (/\ parsed_articles[slug].kind = "article"
                 /\ index_json[slug] = ClaimCurrentHash(slug)) =>
                    slug \notin pre_chunked'
          /\ (pre_runs >= 1 /\ parsed_articles = pre_seen) =>
                (chunks_jsonl' = chunks_jsonl /\ index_json' = index_json)]_vars

\* a second run, force off, over the two articles the first run chunked
C20_Witness ==
    /\ pre_runs = 2
    /\ ~pre_force
    /\ rewrites = 0
    /\ pre_chunked = {}
    /\ Len(chunks_jsonl) >= 3
    /\ \A slug \in {"a", "b-1"} : index_json[slug] = ClaimCurrentHash(slug)
    /\ \A i, j \in 1..Len(chunks_jsonl) :
          i # j => chunks_jsonl[i].id # chunks_jsonl[j].id

-----------------------------------------------------------------------------
\* the urls of the events of a run, in order
ClaimUrls(evs) == [i \in 1..Len(evs) |-> evs[i].url]
ClaimIsPrefix(a, b) == Len(a) <= Len(b) /\ a = SubSeq(b, 1, Len(a))
\* the index and every page answered in the second run as in the first
ClaimSameResponses ==
    /\ events # <<>> /\ prev_events # <<>>
    /\ events[1].what = prev_events[1].what
    /\ \A i \in 1..Len(events), j \in 1..Len(prev_events) :
          (/\ events[i].url = prev_events[j].url
           /\ IsPageFetch(events[i]) /\ IsPageFetch(prev_events[j]))
             => events[i].what = prev_events[j].what

\* C21: the frontier is a FIFO queue: right after the index is read it holds
\* the index links in index order, every iteration takes the url at its
\* front and puts new links at its back; and two runs with the same
\* parameters, from the same output directory and with the same responses
\* of the site, visit the same urls in the same order.
C21_FifoAndDeterministic ==
    /\ [](cpc = "loop" /\ Len(events) = 1 /\ events[1].what = "index_ok"
            => queue = site_index)
    /\ [][(cpc = "loop" /\ events' # events) =>
            /\ queue # <<>>
            /\ LastEvent(events').url = canonicalize_url(Head(queue).url)
            /\ ClaimIsPrefix(Tail(queue), queue')]_vars
    /\ []((/\ restored /\ runs = 2 /\ cpc = "returned"
           /\ force = prev.force /\ max_pages = prev.max_pages
           /\ ClaimSameResponses)
            => ClaimUrls(events) = ClaimUrls(prev_events))

\* both runs fetched a page whose link came back, behind an index link
C21_Witness ==
    /\ restored /\ runs = 2 /\ cpc = "returned"
    /\ force = prev.force /\ max_pages = prev.max_pages
    /\ ClaimSameResponses
    /\ Len(events) >= 4
    /\ \E i \in 1..Len(events) : events[i].what = "ok"
    /\ \E i \in 1..Len(events) : events[i].what = "skip"

-----------------------------------------------------------------------------
\* C26: during a run the visited set only grows; an iteration adds nothing
\* to it but the canonical form of the url it popped; and popping a url
\* that is already visited changes the frontier and nothing else of the
\* run (no counter, no failure record, no file).
C26_VisitedGrows ==
    [][cpc = "loop" =>
         /\ visited \subseteq visited'
         /\ \/ visited' = visited
            \/ /\ queue # <<>>
               /\ visited' = visited \cup {canonicalize_url(Head(queue).url)}
         /\ (queue # <<>> /\ canonicalize_url(Head(queue).url) \in visited) =>
               /\ queue' = Tail(queue)
               /\ UNCHANGED <<cpc, visited, downloaded, skipped, errors,
                              failed_urls, siteVars>>]_vars

\* a url was popped a second time, after two pages had been visited
C26_Witness ==
    /\ cpc = "loop"
    /\ Cardinality(visited) >= 2
    /\ events # <<>>
    /\ LastEvent(events).what = "dup"
    /\ downloaded >= 1

-----------------------------------------------------------------------------
(* More claims about the chunker, checked under SpecChunk *)

ClaimNoSeparator(t) ==
    \A k \in 1..Len(DEFAULT_SEPARATORS) : StrSplit(t, DEFAULT_SEPARATORS[k]) = <<t>>

RECURSIVE ClaimConcat(_)
ClaimConcat(pieces) ==
    IF pieces = <<>> THEN <<>> ELSE Head(pieces) \o ClaimConcat(Tail(pieces))

\* the parts of t between spaces
ClaimWords(t) == StrSplit(t, <<SP>>)
\* w cut every size characters
ClaimSlices(w, size) ==
    [i \in 1..((Len(w) + size - 1) \div size) |->
        SubSeq(w, (i - 1) * size + 1, Min(i * size, Len(w)))]

\* C28: with size >= 1 every piece the separator split returns (before the
\* overlap) is at most size long; and a text longer than size that holds no
\* separator comes back as consecutive slices of exactly size characters,
\* the last one possibly shorter, which concatenated give the text back;
\* so does a word longer than size inside a text whose only separators are
\* spaces.
C28_PiecesWithinSize ==
    (kpc = "done" /\ chunk_size >= 1) =>
        /\ \A i \in 1..Len(base_split) : Len(base_split[i]) <= chunk_size
        /\ (ClaimNoSeparator(norm) /\ Len(norm) > chunk_size) =>
              /\ \A i \in 1..(Len(base_split) - 1) :
                    Len(base_split[i]) = chunk_size
              /\ Len(base_split[Len(base_split)]) \in 1..chunk_size
              /\ ClaimConcat(base_split) = norm
        /\ \A k \in 1..Len(ClaimWords(norm)) :
              LET w == ClaimWords(norm)[k]
              IN  (/\ StrSplit(norm, <<NL>>) = <<norm>>
                   /\ StrSplit(norm, <<DOT, SP>>) = <<norm>>
                   /\ Len(w) > chunk_size) =>
                     \E at \in 1..Len(base_split) :
                        /\ at + Len(ClaimSlices(w, chunk_size)) - 1 <= Len(base_split)
                        /\ SubSeq(base_split, at,
                                  at + Len(ClaimSlices(w, chunk_size)) - 1)
                              = ClaimSlices(w, chunk_size)

\* five characters without a separator, cut into 2 + 2 + 1
C28_Witness ==
    /\ kpc = "done"
    /\ chunk_size = 2
    /\ ClaimNoSeparator(norm)
    /\ Len(norm) = 5
    /\ base_split = ClaimSlices(norm, 2)
    /\ Len(base_split) = 3
    /\ Len(base_split[3]) = 1

\* paragraph break, line break, sentence break, space
ClaimOrder == <<<<NL, NL>>, <<NL>>, <<DOT, SP>>, <<SP>>>>

RECURSIVE ClaimJoin(_, _)
\* the parts joined with sep
ClaimJoin(parts, sep) ==
    IF Len(parts) = 1 THEN parts[1]
    ELSE parts[1] \o sep \o ClaimJoin(Tail(parts), sep)

RECURSIVE ClaimSplit(_, _, _)
RECURSIVE ClaimPack(_, _, _, _)
\* The parts of a text between two occurrences of sep, packed from the left:
\* as many consecutive parts as fit within size when joined with sep make
\* one piece; a part that alone exceeds size is split on the separators
\* after sep, or cut into slices when sep is the last one.
ClaimPack(parts, sep, size, rest) ==
    IF parts = <<>> THEN <<>>
    ELSE
    LET fits == {k \in 1..Len(parts) :
                    Len(ClaimJoin(SubSeq(parts, 1, k), sep)) <= size}
    IN  IF fits = {}
        THEN (IF rest # <<>> THEN ClaimSplit(parts[1], size, rest)
              ELSE ClaimSlices(parts[1], size))
               \o ClaimPack(Tail(parts), sep, size, rest)
        ELSE <<ClaimJoin(SubSeq(parts, 1, SetMax(fits)), sep)>>
               \o ClaimPack(SubSeq(parts, SetMax(fits) + 1, Len(parts)),
                            sep, size, rest)
ClaimSplit(text, size, seps) ==
    IF Len(text) <= size THEN <<text>>
    ELSE ClaimPack(StrSplit(text, Head(seps)), Head(seps), size, Tail(seps))

RECURSIVE ClaimNoEmptyPart(_, _, _)
\* no split of the text, at any level, has an empty part (a text never
\* starts or ends with the separator it is split on)
ClaimNoEmptyPart(text, size, seps) ==
    \/ Len(text) <= size
    \/ \A k \in 1..Len(StrSplit(text, Head(seps))) :
          LET part == StrSplit(text, Head(seps))[k]
          IN  /\ part # <<>>
              /\ (Len(part) > size /\ Tail(seps) # <<>>) =>
                    ClaimNoEmptyPart(part, size, Tail(seps))

ClaimSuffix(s, n) == SubSeq(s, IF Len(s) > n THEN Len(s) - n + 1 ELSE 1, Len(s))

\* C30: the overlap step leaves the first chunk as it is and makes every
\* later one of the last `overlap` characters of the result before it (all
\* of that result when it is no longer than overlap) followed by the chunk
\* itself; the result before it, not the chunk before it.  With overlap <= 0
\* or a single chunk the list comes back unchanged.
C30_OverlapStep ==
    kpc = "done" =>
        /\ Len(base_overlap) = Len(base_split)
        /\ (chunk_overlap <= 0 \/ Len(base_split) <= 1) => base_overlap = base_split
        /\ (chunk_overlap > 0 /\ Len(base_split) > 1) =>
              /\ base_overlap[1] = base_split[1]
              /\ \A i \in 2..Len(base_split) :
                    base_overlap[i] =
                        ClaimSuffix(base_overlap[i - 1], chunk_overlap)
                            \o base_split[i]

\* a third chunk whose overlap reaches into what the second chunk took
\* from the first
C30_Witness ==
    /\ kpc = "done"
    /\ chunk_overlap > 0
    /\ Len(base_split) >= 3
    /\ \E i \in 3..Len(base_split) :
          /\ ClaimSuffix(base_overlap[i - 1], chunk_overlap)
                # ClaimSuffix(base_split[i - 1], chunk_overlap)
          /\ base_overlap[i] =
                ClaimSuffix(base_overlap[i - 1], chunk_overlap) \o base_split[i]

-----------------------------------------------------------------------------
(* Termination of scrape_locale, checked under SpecLive *)

\* C24: a run of scrape_locale over a site with finitely many in-scope
\* canonical urls returns, with the frontier empty or the page budget
\* reached, whatever the links (cycles and self-links included) and
\* whatever the fetch outcomes: every iteration either marks a url that was
\* not visited or shortens the frontier without unmarking any.
C24_Terminates ==
    /\ (cpc = "loop") ~>
          (cpc = "returned" /\ (queue = <<>> \/ BudgetReached(max_pages, downloaded)))
    /\ [](visited \subseteq Pages)
    /\ [][(cpc = "loop" /\ events' # events) =>
            \/ visited \subseteq visited' /\ visited' # visited
            \/ visited' = visited /\ Len(queue') < Len(queue)]_vars

\* a run returned after it met a page that links to itself and a page that
\* failed
C24_Witness ==
    /\ cpc = "returned"
    /\ queue = <<>>
    /\ \E p \in Pages : site_links[p].known /\ site_links[p].links = <<p>>
    /\ downloaded >= 1
    /\ errors >= 1

-----------------------------------------------------------------------------
(* Asset download, checked under SpecAssets *)

ClaimSrcs(log) == [k \in 1..Len(log) |-> log[k].src]
ClaimHas(log, outcome) == \E k \in 1..Len(log) : log[k].outcome = outcome
ClaimCount(log, outcome) ==
    Cardinality({k \in 1..Len(log) : log[k].outcome = outcome})

\* C25: an iteration in which an image request fails.  The image is
\* skipped (no file for it), the images after it are requested all the same,
\* and unless something else fails (an image cannot be written,
\* save_artifacts raises) the page is persisted and counted as downloaded,
\* with errors and failed_urls as they were.
C25_ImageFailureIsolated ==
    [][(/\ cpc = "loop" /\ download_assets_flag /\ events' # events
        /\ ClaimHas(img_log', "request_err")) =>
          LET url     == canonicalize_url(Head(queue).url)
              withSrc == SelectSeq(site_images[url], LAMBDA src : src # NoSrc)
              what    == LastEvent(events').what
          IN
          /\ ~ClaimHas(img_log', "write_err") => ClaimSrcs(img_log') = withSrc
          /\ \A k \in 1..Len(img_log') :
                (/\ img_log'[k].outcome = "request_err"
                 /\ AssetName(img_log'[k].src) \notin asset_files
                 /\ \A j \in 1..Len(img_log') :
                       img_log'[j].src = img_log'[k].src => img_log'[j].outcome # "ok")
                  => AssetName(img_log'[k].src) \notin asset_files'
          /\ (/\ ~ClaimHas(img_log', "write_err")
              /\ what \notin {"persist_err", "persist_partial"}) =>
                /\ what = "ok"
                /\ errors' = errors
                /\ failed_urls' = failed_urls
                /\ downloaded' = downloaded + 1
                /\ assets' = assets + ClaimCount(img_log', "ok")
                /\ \E f \in parsed_files' : f.slug = slug_from_url(url)]_vars

\* the first image of a page failed, the second was saved, the page was
\* persisted
C25_Witness ==
    /\ download_assets_flag
    /\ events # <<>>
    /\ LastEvent(events).what = "ok"
    /\ img_log = <<[src |-> "i1", outcome |-> "request_err"],
                   [src |-> "i2", outcome |-> "ok"]>>
    /\ asset_files = {AssetName("i2")}
    /\ assets = 1
    /\ downloaded = 1
    /\ errors = 0
    /\ failed_urls = <<>>

-----------------------------------------------------------------------------
(* Claims about the multi-site runner, checked under SpecRunner *)

RECURSIVE ClaimSum(_)
ClaimSum(ns) == IF ns = <<>> THEN 0 ELSE Head(ns) + ClaimSum(Tail(ns))
\* the failed records that carry the mark of an authenticated retry
ClaimAnnotated(fs) ==
    Cardinality({i \in 1..Len(fs) : fs[i].tried_auth_state})

\* C22 as stated: when main returns, scrape_locale was called for every
\* site of the list that has a base url, whatever the sites before it
\* returned (an index failure, failed pages); the totals of the report are
\* the sums of the counters the scrape_locale calls returned; and the exit
\* code is 0.
C22_SitesIndependent ==
    rpc = "done" =>
        /\ [i \in 1..Len(site_stats) |-> site_stats[i].site_code]
              = SelectSeq(sites, LAMBDA c : c \in HelpSites)
        /\ report.written
        /\ report.total.downloaded
              = ClaimSum([i \in 1..Len(site_stats) |-> site_stats[i].downloaded])
        /\ report.total.skipped
              = ClaimSum([i \in 1..Len(site_stats) |-> site_stats[i].skipped])
        /\ report.total.errors
              = ClaimSum([i \in 1..Len(site_stats) |-> site_stats[i].errors])
        /\ report.total.assets
              = ClaimSum([i \in 1..Len(site_stats) |-> site_stats[i].assets])
        /\ exit_code = 0

\* C23 as stated: of the failed urls a site resubmits through the
\* authenticated fetch, those that succeed are saved and are no longer in
\* failed, those that fail stay in failed with the mark of the retry; and
\* retries.attempted = retries.succeeded + the number of marked entries of
\* failed, up to and in the report.
C23_AuthRetryAccounting ==
    /\ [](retries.attempted = retries.succeeded + ClaimAnnotated(failed))
    /\ [](report.written =>
            report.retries_with_auth_state.attempted
              = report.retries_with_auth_state.succeeded
                  + ClaimAnnotated(report.failed_urls))
    /\ [][site_pos' = site_pos + 1 =>
            \A k \in 1..Len(last_retry') :
              LET e    == last_retry'[k]
                  mine == {i \in 1..Len(failed') :
                              /\ failed'[i].site_code = e.site_code
                              /\ failed'[i].url = e.url}
              IN  IF e.outcome = "ok"
                  THEN /\ [site_code |-> e.site_code, url |-> e.url] \in auth_saved'
                       /\ mine = {}
                  ELSE /\ mine # {}
                       /\ \A i \in mine :
                             /\ failed'[i].tried_auth_state
                             /\ failed'[i].final_status = "failed_with_auth_state"]_vars

-----------------------------------------------------------------------------
(* The merged chunk and the size limit, checked under SpecMerge *)

\* the chunks handed to the pass are each within the size limit
ClaimInputsFit ==
    \A i \in 1..Len(base_overlap) : Len(base_overlap[i]) <= chunk_size

\* the chunk was produced by a merge: two chunks joined by a newline (the
\* chunks handed to the pass hold no newline)
ClaimIsMerged(c) == \E k \in 1..Len(c) : c[k] = NL

\* C31 as stated: when every chunk handed to the merge-small pass is at most
\* size characters long, every chunk the pass produces by a merge (two
\* chunks joined by a newline) is at most size characters long.
C31_MergedFitsLimit ==
    (kpc = "merged" /\ ClaimInputsFit) =>
        \A i \in 1..Len(base_merged) :
            ClaimIsMerged(base_merged[i]) =>
                Len(base_merged[i]) <= chunk_size

-----------------------------------------------------------------------------
(* Section iteration of chunk_article, checked under SpecArticle *)

\* the sections of the article (none when the list is missing)
ClaimSections == IF article.sections.some THEN article.sections.val ELSE <<>>

\* section i (1-based) has text that is non-blank after trimming
ClaimHasText(i) ==
    /\ ClaimSections[i].text.some
    /\ Strip(ClaimSections[i].text.val) # <<>>

\* the chunk texts of one text: normalised (bullets is the setting the call
\* ran with), split, overlapped, merged, trimmed
ClaimTextChunks(text, bullets) ==
    LET n == normalize_text(text, bullets)
    IN  IF n = <<>> THEN <<>>
        ELSE _section_chunks(n, chunk_size, chunk_overlap, chunk_min)

\* (index, heading, text) of the chunks of one text
ClaimTagged(index, heading, text, bullets) ==
    LET c == ClaimTextChunks(text, bullets)
    IN  [k \in 1..Len(c) |-> <<DecStr(index), heading, c[k]>>]

RECURSIVE ClaimFromSections(_, _)
\* the chunks of the sections with text among the first n, in section order,
\* each with the section's own 0-based index and heading
ClaimFromSections(n, bullets) ==
    IF n = 0 THEN <<>>
    ELSE ClaimFromSections(n - 1, bullets)
           \o (IF ClaimHasText(n)
               THEN ClaimTagged(n - 1, ClaimSections[n].heading,
                                ClaimSections[n].text.val, bullets)
               ELSE <<>>)

\* the chunks of the synthetic section: index 0, placeholder heading, the
\* whole plain text
ClaimSynthetic(bullets) ==
    ClaimTagged(0, "(no_heading)",
                IF article.plain_text.some THEN article.plain_text.val ELSE <<>>,
                bullets)

\* (index, heading, text) of the chunks chunk_article returned; the index is
\* read off the chunk id locale|slug|sectionIndex|chunkIndex
ClaimReturned ==
    [k \in 1..Len(article_chunks) |->
        <<article_chunks[k].id[5],
          article_chunks[k].metadata.section_heading,
          article_chunks[k].text>>]

\* C32: when some section has text that is non-blank after trimming, the
\* chunks come from exactly those sections, in section order, each with its
\* section's original index and heading; otherwise they come from the
\* synthetic section (index 0, placeholder heading, whole plain text).
C32_SectionIteration ==
    apc = "returned" =>
        \E bullets \in BOOLEAN :
            ClaimReturned =
                IF \E i \in 1..Len(ClaimSections) : ClaimHasText(i)
                THEN ClaimFromSections(Len(ClaimSections), bullets)
                ELSE ClaimSynthetic(bullets)

\* a blank section was skipped and the chunk of the section after it
\* carries index 1 and that section's heading
C32_Witness ==
    /\ apc = "returned"
    /\ Len(ClaimSections) >= 2
    /\ ~ClaimHasText(1)
    /\ ClaimHasText(2)
    /\ ClaimSections[1].heading # ClaimSections[2].heading
    /\ article_chunks # <<>>
    /\ article_chunks[1].id[5] = "1"
    /\ article_chunks[1].metadata.section_heading = ClaimSections[2].heading

-----------------------------------------------------------------------------
(* The error counter of scrape_locale, checked under Spec *)

\* C33: in every state of a scrape_locale run and in the stats it returns,
\* the index-failure result included, errors is the number of records in
\* failed_urls.
C33_ErrorsCountFailedUrls == errors = Len(failed_urls)

\* a page of the loop failed and was recorded while the run goes on
C33_Witness ==
    /\ cpc = "loop"
    /\ errors = 1
    /\ events # <<>>
    /\ events[Len(events)].what \in PageFailures
    /\ failed_urls[1].url = events[Len(events)].url

-----------------------------------------------------------------------------
(* The counters of scrape_locale and the visited set, checked under Spec *)

ClaimCounted == downloaded + skipped + errors

\* the run ended at its index fetch: the index-failure result was returned
ClaimIndexFailed == events # <<>> /\ events[1].what = "index_err"

\* C34 as stated: at the end of a run without page budget
\* downloaded + skipped + errors is the size of visited, and with a budget
\* the sum is at most the size of visited.
C34_CountersSumToVisited ==
    cpc = "returned" =>
        /\ max_pages = 0 => ClaimCounted = Cardinality(visited)
        /\ max_pages # 0 => ClaimCounted <= Cardinality(visited)

\* the loop added a url to visited: exactly one counter moved, by one, or
\* the budget was reached and the loop was left with no counter moved
ClaimVisitStep ==
    (runs' = runs /\ visited' # visited) =>
        /\ Cardinality(visited') = Cardinality(visited) + 1
        /\ \/ /\ <<downloaded', skipped', errors'>> \in
                    {<<downloaded + 1, skipped, errors>>,
                     <<downloaded, skipped + 1, errors>>,
                     <<downloaded, skipped, errors + 1>>}
              /\ ~BudgetReached(max_pages, downloaded)
           \/ /\ <<downloaded', skipped', errors'>> = <<downloaded, skipped, errors>>
              /\ BudgetReached(max_pages, downloaded)
              /\ cpc' = "returned"

\* C34 amended: in a run that got past its index fetch, each url newly added
\* to visited moves exactly one of downloaded, skipped, errors by one unless
\* the budget stops the loop at it; the sum is the size of visited without a
\* budget, and the size of visited or one less with a budget.  A run whose
\* index fetch failed returns errors = 1 with visited empty.
C34_Amended ==
    /\ [](cpc \in {"loop", "returned"} =>
            IF ClaimIndexFailed
            THEN ClaimCounted = 1 /\ errors = 1 /\ visited = {}
            ELSE /\ max_pages = 0 => ClaimCounted = Cardinality(visited)
                 /\ max_pages # 0 =>
                        ClaimCounted \in {Cardinality(visited),
                                           Cardinality(visited) - 1})
    /\ [][ClaimVisitStep]_vars

\* a budgeted run was stopped at a url it had just added to visited, after
\* a download
C34_Witness ==
    /\ cpc = "returned"
    /\ max_pages = 1
    /\ downloaded = 1
    /\ events[Len(events)].what = "break"
    /\ ClaimCounted = Cardinality(visited) - 1

-----------------------------------------------------------------------------
(* Skipping and the artifact of the same url, checked under Spec *)

\* C35 as stated: a url is counted as skipped only if a parsed artifact of
\* that same canonical url is on disk, so in a run with force = false that
\* started from an empty output directory skipped stays 0, also when two
\* distinct canonical urls of the site share their last path segment.
C35_SkippedOnlyOwnArtifact ==
    (cpc \in {"loop", "returned"} /\ ~force /\ start_files = {}) =>
        skipped = 0

-----------------------------------------------------------------------------
(* Resuming a crawl that a page budget stopped, checked under Spec *)

\* the pages the index lists
ClaimSeeds == {canonicalize_url(site_index[i].url) : i \in 1..Len(site_index)}

\* one more step along the outbound links the site is known to have
ClaimFollow(S) ==
    S \cup UNION {{site_links[p].links[i] : i \in 1..Len(site_links[p].links)} :
                    p \in {q \in S : site_links[q].known}}

\* the pages reachable from the index through in-scope links
ClaimReachable == ClaimFollow(ClaimFollow(ClaimFollow(ClaimSeeds)))

\* the parsed artifact of the page is on disk
ClaimPersisted(p) == \E f \in parsed_files : f.url = p

\* C36 as stated: a run stopped by a page budget, started on an empty
\* directory, followed by an unlimited run with force = false on the same
\* directory and unchanged site, neither run meeting a failure, leaves every
\* page reachable from the index through in-scope links persisted, as one
\* unlimited run does.
C36_ResumeEquivalent ==
    (/\ cpc = "returned" /\ runs = 2 /\ ~override_given
     /\ prev.valid /\ prev.empty_start /\ prev.max_pages # 0 /\ prev.errors = 0
     /\ max_pages = 0 /\ ~force /\ errors = 0) =>
        \A p \in ClaimReachable : ClaimPersisted(p)

-----------------------------------------------------------------------------
(* A failed url and its parsed artifact, checked under Spec *)

\* C37 as stated: the failure that records a url in failed_urls leaves no
\* parsed artifact at the url's artifact path, wherever it occurred inside
\* fetch, extract, asset download or the multi-file persist step: the step
\* that appends to failed_urls puts no file into the parsed directory.
C37_FailureLeavesNoArtifact ==
    [][Len(failed_urls') > Len(failed_urls) => parsed_files' = parsed_files]_vars

-----------------------------------------------------------------------------
(* Termination of _section_chunks, checked under SpecSteps *)

\* a recursive call was made: the new frame's separator list is strictly
\* shorter than its caller's
ClaimCallShortens ==
    (stack # <<>> /\ Len(stack') = Len(stack) + 1) =>
        Len(stack'[Len(stack')].separators) < Len(stack[Len(stack)].separators)

\* a pass of the hard-window loop was made: start moved on by size
ClaimWindowAdvances ==
    (/\ Len(stack') = Len(stack) /\ stack # <<>>
     /\ stack[Len(stack)].pc = "window" /\ stack'[Len(stack)].pc = "window") =>
        /\ stack'[Len(stack)].start = stack[Len(stack)].start + chunk_size
        /\ stack'[Len(stack)].start > stack[Len(stack)].start

\* a pass of the merge loop was made: idx moved on by one or two
ClaimMergeAdvances ==
    (kpc = "merge" /\ kpc' = "merge") => midx' - midx \in {1, 2}

\* C38: with size >= 1, min <= size and 0 <= overlap < size the chunking of
\* a section text terminates: every run reaches its end, each recursive call
\* of the split has a strictly shorter separator list, each pass of the
\* hard-window loop advances by size, and each pass of the merge loop
\* advances by one or two positions.
C38_ChunkingTerminates ==
    /\ (kpc = "input") ~> (kpc = "done")
    /\ [][ClaimCallShortens /\ ClaimWindowAdvances /\ ClaimMergeAdvances]_vars

\* the split is three calls deep and inside its hard-window loop, one window
\* already cut
C38_Witness ==
    /\ kpc = "split"
    /\ Len(stack) >= 3
    /\ stack[Len(stack)].pc = "window"
    /\ stack[Len(stack)].start > 0

-----------------------------------------------------------------------------
(* The error total of the scrape report, checked under SpecRunner *)

\* C39 as stated: in the report main writes, total.errors is the number of
\* entries of failed_urls, also after authenticated retries succeeded for
\* some failed urls, so that a page saved by a retry (counted in
\* total.downloaded) is not counted in total.errors as well.
C39_ReportErrorsMatchFailed ==
    report.written =>
        report.total.errors = Len(report.failed_urls)

=============================================================================
